---- MODULE Spec2Model ----
(***************************************************************************)
(* A model of the realtimesound streaming engine.                          *)
(*                                                                         *)
(* Two generations of the engine live side by side in the repository:      *)
(*                                                                         *)
(*   * device.py + _streamer.py + _buffer.py: finite play / record /       *)
(*     playrec sessions.  The streamer is a process that owns the          *)
(*     PortAudio callback, a _MemoryBuffer thread drains bufferQ into the  *)
(*     accumulator, a Timer runs _buffer_cleanup.  Specification Spec.     *)
(*                                                                         *)
(*   * context.py + streams/streamer.py + buffer.py: the queue based       *)
(*     Source -> sourceQ -> Streamer callback engine.  Specification       *)
(*     SpecStreams.                                                        *)
(*                                                                         *)
(* A frame is a natural number (0 is a zero sample), a block is a sequence *)
(* of frames.  One logical channel is modelled.                            *)
(***************************************************************************)
EXTENDS Integers, Sequences, FiniteSets, TLC

\* ------------------------------------------------------------------ bounds

\* Largest number of frames a session is asked to play or record.
MaxFrames == 5

\* Frames the backend hands to one callback (the code asks for 256).
BlockSize == 2

\* Largest capacity of the capture queue in the overrun specification.
MaxCap == 2

\* Streamer instances started one after the other on one context.
MaxSessions == 2

\* Blocks of the longest audio handed to the Source.
MaxBlocks == 2

\* Largest target length of an AudioReceiver, in frames.
MaxTarget == 3

\* Blocks the callback has put on the sink queue before the Sink runs.
MaxSinkBlocks == 3

\* Calls of replace_generator_data.
MaxInstalls == 1

\* Frames of the longest audio and of the largest block an AudioGenerator
\* is built with on its own.
MaxAudio == 8

MaxBlockSize == 4

\* Capacity of a multiprocessing.Queue() built without maxsize.
SemValueMax == 2147483647

VARIABLES
    kind,              \* "play" | "record" | "playrec": the streamer class
    block,             \* _Streamer.block
    nframes,           \* the request: data.shape[0], or samplerate * tlen
    durationSamples,   \* _Streamer.durationSamples
    idx,               \* _Streamer.idx
    bufferQ,           \* _Streamer.bufferQ: sequence of blocks
    maxsize,           \* capacity of bufferQ
    statuses,          \* _Streamer._statuses
    running,           \* Device._running
    finished,          \* _Streamer.finished
    cbActive,          \* the backend still invokes the callback
    paResult,          \* what the last callback returned to PortAudio
    streamerPc,        \* position of the streamer process in run()
    finPc,             \* position of the backend in _finished_streaming
    callerPc,          \* position of the caller in start_streaming
    bufPc,             \* position of the _MemoryBuffer thread in run()
    bufIdx,            \* _MemoryBuffer.idx
    buffer,            \* _Streamer._buffer, the accumulator
    timerPc,           \* position of the Timer thread in _buffer_cleanup
    ret,               \* what record / playrec returned
    outdata,           \* the device's output block after the last callback
    played,            \* every frame the callback wrote to the output
    captured,          \* every frame the callback put on bufferQ
    puts,              \* calls of bufferQ.put_nowait made by the callback
    session,           \* which Streamer instance is the current one
    sourceQ,           \* RealTimeContext._sourceQ: sequence of blocks
    sinkQ,             \* RealTimeContext._sinkQ: sequence of blocks
    stop_request,      \* RealTimeContext._stop_requested
    recording,         \* Streamer.recording (class attribute)
    callback_safe,     \* Streamer.callback_safe (class attribute)
    have_generator,    \* Source.have_generator (class attribute)
    generator,         \* blocks the Source's AudioGenerator has yet to yield
    installs,          \* calls of replace_generator_data made so far
    srcPc,             \* position of the Source thread in run()
    closerPc,          \* position of the thread that calls close_stream
    placed,            \* every block Source put on sourceQ
    audio,             \* the audio the AudioGenerator was given last
    blocksize,         \* AudioGenerator.size
    written,           \* output block of each tick the callback returned from
    online,            \* Device._online
    samplerate,        \* Device._samplerate
    inputs,            \* Device._inputs
    outputs,           \* Device._outputs
    has_monitor,       \* Device._has_monitor
    extern_monitor,    \* Device._extern_monitor
    MonitorSub,        \* Device._MonitorSub with its arguments
    lastCall,          \* the last call on the Device: its name, how it
                       \* ended, and whether it found _online set
    streamers,         \* every streamer process device.py has built
    devPc,             \* position of the caller inside play / record / playrec
    monitorQ,          \* Device._monitorQ: sequence of blocks
    monData,           \* Monitor.data: the rolling window
    frameCount,        \* frameCount of MonitorThread.run
    monPc,             \* position of the monitor in run()
    processed,         \* the window of every process_data call, in order
    pushed,            \* blocks the callback has put on monitorQ
    consumed,          \* every frame the monitor has taken from monitorQ
    playQ,             \* Device._playQ: the play requests not yet taken
    workers,           \* every _MemoryBuffer thread _new_recdata has started
    ctxOnline,         \* RealTimeContext._online
    audiorec,          \* AudioReceiver.audiorec: the frames accumulated
    receiverSize,      \* AudioReceiver.size: the target length
    have_receiver,     \* Sink.have_receiver
    sinkPc,            \* position of the Sink thread in run()
    overruns           \* StopIteration raised by next_audio_block so far

\* The Device object and the streamer processes of device.py.
devVars == <<online, samplerate, inputs, outputs, has_monitor, extern_monitor,
             MonitorSub, lastCall, streamers, devPc>>

\* The monitor, its queue and what was handed to process_data.
monVars == <<monitorQ, monData, frameCount, monPc, processed, pushed,
             consumed>>

\* Continuous mode: the request queue and the buffer threads of the
\* Device, and the _online flag of a RealTimeContext.
contVars == <<playQ, workers, ctxOnline>>

\* The Sink thread and its AudioReceiver.
sinkVars == <<audiorec, receiverSize, have_receiver, sinkPc, overruns>>

\* Fixed while a session lasts.
cfgVars == <<kind, block, nframes, durationSamples, maxsize, devVars, monVars,
             contVars, sinkVars>>

\* Written by the callback only.
cbVars == <<idx, statuses, paResult, outdata, played, captured, puts>>

\* The _MemoryBuffer thread and its accumulator.
bufVars == <<bufPc, bufIdx, buffer>>

\* The Source thread and its generator.
srcVars == <<have_generator, generator, installs, srcPc, placed, audio,
             blocksize>>

\* State of the context.py / streams/streamer.py / buffer.py engine only.
streamsVars == <<session, sourceQ, sinkQ, stop_request, recording,
                 callback_safe, srcVars, closerPc, written>>

vars == <<cfgVars, cbVars, bufVars, streamsVars, bufferQ, timerPc, ret,
          running, finished, cbActive, streamerPc, finPc, callerPc>>

\* ----------------------------------------------------------------- helpers

\* zeros((n, channels)): n zero frames.
Zeros(n) == [i \in 1..n |-> 0]

\* Frames a..b of the capture clock / of the play data (data[i] = i).
Frames(a, b) == [i \in 1..(b - a + 1) |-> a + i - 1]

\* Python's round() of the float twice/2: ties go to the even integer.
PyRound(twice) ==
    LET q == twice \div 2
    IN  IF twice % 2 = 0 THEN q
        ELSE IF q % 2 = 0 THEN q ELSE q + 1

\* Python's int() of the non-negative float twice/2: truncation.
PyInt(twice) == twice \div 2

\* _Recorder.__init__: round(self.samplerate * tlen + 0.5), for a product
\* samplerate * tlen that is the whole number n.
RecorderDuration(n) == PyRound(2 * n + 1)

\* _Player.__init__, _PlaybackRecorder.__init__: data.shape[0].
DataDuration(n) == n

\* Queue.put_nowait raises Full when the queue holds maxsize items.
QueueFull(q, cap) == Len(q) >= cap

\* A frame count that is never cut to what is left of the duration.
ProcessFramesUncut(frames) == frames

\* playframes / recframes of _process_output_data, _process_input_data.
ProcessFrames(frames) ==
    IF frames + idx <= durationSamples THEN frames
    ELSE durationSamples - idx

\* outdata.fill(0); outdata[:playframes, self.outputs] = playdata
WriteOutput(playdata, frames) ==
    [i \in 1..frames |-> IF i <= Len(playdata) THEN playdata[i] ELSE 0]

\* A stop test that also fires on a full block, which would end every
\* session on its first tick: the test C6 must tell apart from the code's.
CallbackStopsOnFullBlock(myframes, cbframes) == myframes <= cbframes

\* _end_of_callback: raise CallbackStop when myframes < cbframes.
CallbackStops(myframes, cbframes) == myframes < cbframes

\* _end_of_callback: if status: self._statuses.append(status)
RecordStatus(status) == IF status THEN Append(statuses, "flag") ELSE statuses

HasBuffer(k) == k \in {"record", "playrec"}


\* ------------------------------------------------------------------- Init

\* Blocks that fill the monitor window: winsize = WinBlocks * BlockSize.
WinBlocks == 2

\* Monitor.numSamples
numSamples == WinBlocks * BlockSize

\* No monitor has been started, no request was made in continuous mode and
\* no RealTimeContext has opened a stream.
NoMonitor ==
    /\ monitorQ = <<>>
    /\ monData = Zeros(numSamples)
    /\ frameCount = 0
    /\ monPc = "absent"
    /\ processed = <<>>
    /\ pushed = 0
    /\ consumed = <<>>
    /\ playQ = <<>>
    /\ workers = <<>>
    /\ ctxOnline = FALSE

\* Channels of the audio device in each direction, max_input_channels and
\* max_output_channels of the device description.
MaxChannels == 2

\* Sample rates the backend accepts for the device, and the one the device
\* description gives as default.
SupportedRates == {44100, 48000}

DefaultRate == 44100

\* list(range(max_input_channels))
AllChannels == [i \in 1..MaxChannels |-> i - 1]

\* Device.__init__ called without samplerate, inputs and outputs; the
\* module level _streamer placeholder was built and never started.
DeviceBuilt ==
    /\ online = FALSE
    /\ samplerate = DefaultRate
    /\ inputs = AllChannels
    /\ outputs = AllChannels
    /\ has_monitor = FALSE
    /\ extern_monitor = FALSE
    /\ MonitorSub = "unset"
    /\ lastCall = [name |-> "none", result |-> "none", online |-> FALSE]
    /\ streamers = <<>>
    /\ devPc = [pc |-> "idle", kind |-> "none", block |-> FALSE]

\* No Sink thread was built.
NoSink ==
    /\ audiorec = <<>>
    /\ receiverSize = 0
    /\ have_receiver = FALSE
    /\ sinkPc = "absent"
    /\ overruns = 0

\* The engine of context.py is not in use: its Source and its streamer.
NoSource ==
    /\ session = 1
    /\ sourceQ = <<>>
    /\ stop_request = FALSE
    /\ recording = FALSE
    /\ callback_safe = FALSE
    /\ have_generator = FALSE
    /\ generator = <<>>
    /\ installs = 0
    /\ srcPc = "absent"
    /\ closerPc = "absent"
    /\ placed = <<>>
    /\ audio = <<>>
    /\ blocksize = BlockSize
    /\ written = <<>>

\* The engine of context.py is not in use.
NoStreams == NoSource /\ sinkQ = <<>> /\ NoSink

\* The state after _setup_streamer() built the streamer: the constructor
\* has sized the accumulator, started the _MemoryBuffer thread and armed
\* the cleanup Timer.
InitSession(k, n, b, cap) ==
    /\ kind = k
    /\ block = b
    /\ nframes = n
    /\ durationSamples = (IF k = "record" THEN RecorderDuration(n)
                          ELSE DataDuration(n))
    /\ idx = 0
    /\ bufferQ = <<>>
    /\ maxsize = cap
    /\ statuses = <<>>
    /\ running = FALSE
    /\ finished = FALSE
    /\ cbActive = FALSE
    /\ paResult = "none"
    /\ streamerPc = "idle"
    /\ finPc = "idle"
    /\ callerPc = "start"
    /\ bufPc = (IF HasBuffer(k) THEN "wait_running" ELSE "absent")
    /\ bufIdx = 0
    /\ buffer = (IF HasBuffer(k) THEN Zeros(durationSamples) ELSE <<>>)
    /\ timerPc = (IF HasBuffer(k) THEN "armed" ELSE "absent")
    /\ ret = <<>>
    /\ outdata = Zeros(BlockSize)
    /\ played = <<>>
    /\ captured = <<>>
    /\ puts = 0
    /\ NoStreams
    /\ DeviceBuilt
    /\ NoMonitor

Init ==
    \E k \in {"play", "record", "playrec"}, n \in 1..MaxFrames, b \in BOOLEAN :
        InitSession(k, n, b, SemValueMax)

\* ----------------------------------------------------------------- caller

\* _Streamer.start_streaming: self.start()
CallerStart ==
    /\ callerPc = "start"
    /\ kind # "stream"
    /\ callerPc' = "wait_running"
    /\ streamerPc' = "spawned"
    /\ UNCHANGED <<cfgVars, cbVars, bufVars, streamsVars, bufferQ, timerPc,
                   ret, running, finished, cbActive, finPc>>

\* start_streaming: self.running.wait() returns; a call with block unset
\* returns here.
CallerWaitRunning ==
    /\ callerPc = "wait_running"
    /\ running
    /\ callerPc' = (IF block THEN "wait_finished" ELSE "returned")
    /\ UNCHANGED <<cfgVars, cbVars, bufVars, streamsVars, bufferQ, timerPc,
                   ret, running, finished, cbActive, streamerPc, finPc>>

\* start_streaming: self.finished.wait() returns; record / playrec then
\* return _streamer._buffer.copy().
CallerWaitFinished ==
    /\ callerPc = "wait_finished"
    /\ finished
    /\ callerPc' = "returned"
    /\ ret' = buffer
    /\ UNCHANGED <<cfgVars, cbVars, bufVars, streamsVars, bufferQ, timerPc,
                   running, finished, cbActive, streamerPc, finPc>>

\* ------------------------------------------------------- streamer process

\* run(): entering "with Stream(...)" opens and starts the stream; from now
\* on the backend invokes the callback.
StreamOpen ==
    /\ streamerPc = "spawned"
    /\ streamerPc' = "opened"
    /\ cbActive' = TRUE
    /\ UNCHANGED <<cfgVars, cbVars, bufVars, streamsVars, bufferQ, timerPc,
                   ret, running, finished, finPc, callerPc>>

\* run(): the backend fails to open the stream and the constructor of the
\* stream raises.  run() of _streamer.py has no handler; the handler of
\* streams/streamer.py prints self.stream.time, an attribute that was never
\* assigned, and raises in turn.  The process ends there.
StreamOpenFails ==
    /\ streamerPc = "spawned"
    /\ streamerPc' = "failed"
    /\ UNCHANGED <<cfgVars, cbVars, bufVars, streamsVars, bufferQ, timerPc,
                   ret, running, finished, cbActive, finPc, callerPc>>

\* run(): self.running.set()
StreamSetRunning ==
    /\ streamerPc = "opened"
    /\ streamerPc' = "wait_finished"
    /\ running' = TRUE
    /\ UNCHANGED <<cfgVars, cbVars, bufVars, streamsVars, bufferQ, timerPc,
                   ret, finished, cbActive, finPc, callerPc>>

\* run(): self.finished.wait() returns and the with block closes the
\* stream; a stream that was still active stops, and the backend calls the
\* finished callback.
StreamExit ==
    /\ streamerPc = "wait_finished"
    /\ finished
    /\ streamerPc' = "exited"
    /\ cbActive' = FALSE
    /\ finPc' = (IF cbActive /\ finPc = "idle" THEN "clear_running" ELSE finPc)
    /\ UNCHANGED <<cfgVars, cbVars, bufVars, streamsVars, bufferQ, timerPc,
                   ret, running, finished, callerPc>>

\* _finished_streaming: self.running.clear()
FinishedClearRunning ==
    /\ finPc = "clear_running"
    /\ running' = FALSE
    /\ finPc' = "set_finished"
    /\ UNCHANGED <<cfgVars, cbVars, bufVars, streamsVars, bufferQ, timerPc,
                   ret, finished, cbActive, streamerPc, callerPc>>

\* _finished_streaming: self.finished.set()
FinishedSetFinished ==
    /\ finPc = "set_finished"
    /\ finished' = TRUE
    /\ finPc' = "done"
    /\ UNCHANGED <<cfgVars, cbVars, bufVars, streamsVars, bufferQ, timerPc,
                   ret, running, cbActive, streamerPc, callerPc>>

\* --------------------------------------------------------------- callback

\* The callback left through an exception other than CallbackStop:
\* sounddevice answers paAbort, and the backend calls the finished callback.
CallbackRaises ==
    /\ paResult' = "abort"
    /\ cbActive' = FALSE
    /\ finPc' = "clear_running"

\* The callback raised CallbackStop: sounddevice answers paComplete.
CallbackStop ==
    /\ paResult' = "complete"
    /\ cbActive' = FALSE
    /\ finPc' = "clear_running"

\* The callback returned: sounddevice answers paContinue.
CallbackReturns ==
    /\ paResult' = "continue"
    /\ UNCHANGED <<cbActive, finPc>>

\* _Streamer._end_of_callback
EndOfCallback(myframes, cbframes, status) ==
    /\ statuses' = RecordStatus(status)
    /\ IF CallbackStops(myframes, cbframes) THEN CallbackStop
       ELSE CallbackReturns

\* _Streamer._process_output_data
ProcessOutputData(frames) ==
    LET playframes == ProcessFrames(frames)
        playdata == Frames(idx + 1, idx + playframes)
    IN  /\ outdata' = WriteOutput(playdata, frames)
        /\ played' = played \o playdata

\* _Player._callback
PlayerCallback(frames, status) ==
    /\ kind = "play"
    /\ ProcessOutputData(frames)
    /\ idx' = idx + ProcessFrames(frames)
    /\ EndOfCallback(ProcessFrames(frames), frames, status)
    /\ UNCHANGED <<bufferQ, captured, puts>>

\* _Streamer._process_input_data, and what the callback does after it:
\* put_nowait raises Full out of the callback when the queue is full.
ProcessInputData(frames, status, sframes) ==
    LET recframes == ProcessFrames(frames)
        data == Frames(idx + 1, idx + recframes)
    IN  /\ puts' = puts + 1
        /\ IF QueueFull(bufferQ, maxsize)
           THEN /\ CallbackRaises
                /\ UNCHANGED <<bufferQ, captured, idx, statuses>>
           ELSE /\ bufferQ' = Append(bufferQ, data)
                /\ captured' = captured \o data
                /\ idx' = idx + sframes
                /\ EndOfCallback(sframes, frames, status)

\* _Recorder._callback
RecorderCallback(frames, status) ==
    /\ kind = "record"
    /\ ProcessInputData(frames, status, ProcessFrames(frames))
    /\ UNCHANGED <<outdata, played>>

\* max(playframes, recframes)
Max(a, b) == IF a >= b THEN a ELSE b

\* _PlaybackRecorder._callback
PlaybackRecorderCallback(frames, status) ==
    /\ kind = "playrec"
    /\ ProcessOutputData(frames)
    /\ ProcessInputData(frames, status,
                        Max(ProcessFrames(frames), ProcessFrames(frames)))

\* One invocation of the callback by the backend, which hands it BlockSize
\* frames and the status flags it has to report.
Tick ==
    /\ cbActive
    /\ finPc = "idle"
    /\ \E status \in BOOLEAN :
          \/ PlayerCallback(BlockSize, status)
          \/ RecorderCallback(BlockSize, status)
          \/ PlaybackRecorderCallback(BlockSize, status)
    /\ UNCHANGED <<cfgVars, bufVars, streamsVars, timerPc, ret, running,
                   finished, streamerPc, callerPc>>

\* ----------------------------------------------------------- _MemoryBuffer

\* run(): self.running.wait(5.) returns because the event is set.
MemoryBufferRunningSeen ==
    /\ bufPc = "wait_running"
    /\ running
    /\ bufPc' = "loop"
    /\ UNCHANGED <<cfgVars, cbVars, streamsVars, bufIdx, buffer, bufferQ,
                   timerPc, ret, running, finished, cbActive, streamerPc,
                   finPc, callerPc>>

\* run(): self.running.wait(5.) returns because the five seconds are over;
\* the value it returns is not looked at.
MemoryBufferWaitTimeout ==
    /\ bufPc = "wait_running"
    /\ ~running
    /\ bufPc' = "loop"
    /\ UNCHANGED <<cfgVars, cbVars, streamsVars, bufIdx, buffer, bufferQ,
                   timerPc, ret, running, finished, cbActive, streamerPc,
                   finPc, callerPc>>

\* self.buffer[self.idx:self.idx + shift] = data
StoreBlock(buf, at, data) ==
    [i \in 1..Len(buf) |->
        IF at < i /\ i <= at + Len(data) THEN data[i - at] ELSE buf[i]]

\* run(): data, = self.q.get(1.) -- the 1. is the block argument, so the
\* get waits without a timeout -- then the block is stored.  A block that
\* does not fit raises ValueError, which ends the thread.
MemoryBufferPop ==
    /\ bufPc = "loop"
    /\ bufferQ # <<>>
    /\ LET data == Head(bufferQ)
       IN  /\ bufferQ' = Tail(bufferQ)
           /\ IF bufIdx + Len(data) <= Len(buffer)
              THEN /\ buffer' = StoreBlock(buffer, bufIdx, data)
                   /\ bufIdx' = bufIdx + Len(data)
                   /\ UNCHANGED bufPc
              ELSE /\ bufPc' = "crashed"
                   /\ UNCHANGED <<buffer, bufIdx>>
    /\ UNCHANGED <<cfgVars, cbVars, streamsVars, timerPc, ret, running,
                   finished, cbActive, streamerPc, finPc, callerPc>>

\* ---------------------------------------------------------- cleanup Timer

\* The Timer armed by the constructor fires and _buffer_cleanup starts:
\* if _buffer.is_alive()
CleanupFire ==
    /\ timerPc = "armed"
    /\ timerPc' = (IF bufPc \in {"wait_running", "loop"} THEN "draining"
                   ELSE "join")
    /\ UNCHANGED <<cfgVars, cbVars, bufVars, streamsVars, bufferQ, ret,
                   running, finished, cbActive, streamerPc, finPc, callerPc>>

\* _buffer_cleanup: while not _buffer.q.empty(): _ = _buffer.q.get_nowait()
CleanupDrain ==
    /\ timerPc = "draining"
    /\ IF bufferQ # <<>>
       THEN /\ bufferQ' = Tail(bufferQ)
            /\ UNCHANGED timerPc
       ELSE /\ timerPc' = "join"
            /\ UNCHANGED bufferQ
    /\ UNCHANGED <<cfgVars, cbVars, bufVars, streamsVars, ret, running,
                   finished, cbActive, streamerPc, finPc, callerPc>>

\* _buffer_cleanup: _buffer.join(timeout=5.) returns.
CleanupJoin ==
    /\ timerPc = "join"
    /\ timerPc' = "done"
    /\ UNCHANGED <<cfgVars, cbVars, bufVars, streamsVars, bufferQ, ret,
                   running, finished, cbActive, streamerPc, finPc, callerPc>>

\* ------------------------------------------------------------------- Next

Next ==
    \/ CallerStart
    \/ CallerWaitRunning
    \/ CallerWaitFinished
    \/ StreamOpen
    \/ StreamSetRunning
    \/ StreamExit
    \/ Tick
    \/ FinishedClearRunning
    \/ FinishedSetFinished
    \/ MemoryBufferRunningSeen
    \/ MemoryBufferWaitTimeout
    \/ MemoryBufferPop
    \/ CleanupFire
    \/ CleanupDrain
    \/ CleanupJoin

\* Finite sessions of device.py: one play, record or playrec call.
Spec == Init /\ [][Next]_vars

\* The scheduler keeps the caller, the streamer process with its callbacks,
\* the _MemoryBuffer thread and the cleanup Timer running.
FairFinite ==
    /\ WF_vars(CallerStart)
    /\ WF_vars(CallerWaitRunning)
    /\ WF_vars(CallerWaitFinished)
    /\ WF_vars(StreamOpen)
    /\ WF_vars(StreamSetRunning)
    /\ WF_vars(StreamExit)
    /\ WF_vars(Tick)
    /\ WF_vars(FinishedClearRunning)
    /\ WF_vars(FinishedSetFinished)
    /\ WF_vars(MemoryBufferRunningSeen)
    /\ WF_vars(MemoryBufferWaitTimeout)
    /\ WF_vars(MemoryBufferPop)
    /\ WF_vars(CleanupFire)
    /\ WF_vars(CleanupDrain)
    /\ WF_vars(CleanupJoin)

\* Finite sessions of device.py under fair scheduling.
SpecFinite == Init /\ [][Next]_vars /\ FairFinite

NextFailure ==
    \/ CallerStart
    \/ CallerWaitRunning
    \/ CallerWaitFinished
    \/ StreamOpen
    \/ StreamOpenFails
    \/ StreamSetRunning
    \/ StreamExit
    \/ Tick
    \/ FinishedClearRunning
    \/ FinishedSetFinished
    \/ MemoryBufferRunningSeen
    \/ MemoryBufferWaitTimeout
    \/ MemoryBufferPop
    \/ CleanupFire
    \/ CleanupDrain
    \/ CleanupJoin

\* Finite sessions of device.py on a backend that may fail to open the
\* stream.
SpecFailure == Init /\ [][NextFailure]_vars

\* Overrun: record and playrec sessions on a capture queue of a small
\* capacity which nothing consumes (no _MemoryBuffer pop, no cleanup).
InitOverrun ==
    \E k \in {"record", "playrec"}, n \in 1..MaxFrames, b \in BOOLEAN,
       cap \in 1..MaxCap :
        InitSession(k, n, b, cap)

NextOverrun ==
    \/ CallerStart
    \/ CallerWaitRunning
    \/ CallerWaitFinished
    \/ StreamOpen
    \/ StreamSetRunning
    \/ StreamExit
    \/ Tick
    \/ FinishedClearRunning
    \/ FinishedSetFinished

SpecOverrun == InitOverrun /\ [][NextOverrun]_vars

\* ===================================================== the streams engine

\* Python's round() of the float p/q, q > 0: ties go to the even integer.
PyRoundRatio(p, q) ==
    LET lo == p \div q
        r  == p % q
    IN  IF 2 * r < q THEN lo
        ELSE IF 2 * r > q THEN lo + 1
        ELSE IF lo % 2 = 0 THEN lo ELSE lo + 1

\* round(data.shape[0]/size + 0.5)
BlockCount(frames, size) == PyRoundRatio(2 * frames + size, 2 * size)

\* frames/size rounded up.
BlockCountUp(frames, size) == (frames + size - 1) \div size

\* AudioGenerator.prepare_for_playing(audio, size, channels) for an audio
\* of one channel: data.resize(..., size, channels) fills what it adds with
\* zeros, and the generator yields the blocks of data in order.
PrepareForPlaying(aud, size) ==
    LET n    == BlockCount(Len(aud), size)
        data == aud \o Zeros(n * size - Len(aud))
    IN  [k \in 1..n |-> SubSeq(data, (k - 1) * size + 1, k * size)]

\* What the backend's output buffer may hold when the callback is entered:
\* the callback is handed memory it has not initialised.
StaleOutput == {outdata, Zeros(BlockSize), [i \in 1..BlockSize |-> -1]}

\* indata[:, self.inputs]
InputBlock == Zeros(BlockSize)

\* The state after RealTimeContext.__init__, Source.__init__ and
\* Streamer.__init__: every Event is clear, every Queue is empty, and the
\* Source thread has been started.
InitStreams ==
    /\ kind = "stream"
    /\ block \in BOOLEAN
    /\ nframes = 0
    /\ durationSamples = 0
    /\ maxsize = SemValueMax
    /\ idx = 0
    /\ statuses = <<>>
    /\ paResult = "none"
    /\ outdata = Zeros(BlockSize)
    /\ played = <<>>
    /\ captured = <<>>
    /\ puts = 0
    /\ bufPc = "absent"
    /\ bufIdx = 0
    /\ buffer = <<>>
    /\ bufferQ = <<>>
    /\ timerPc = "absent"
    /\ ret = <<>>
    /\ running = FALSE
    /\ finished = FALSE
    /\ cbActive = FALSE
    /\ streamerPc = "idle"
    /\ finPc = "idle"
    /\ callerPc = "start"
    /\ session = 1
    /\ sourceQ = <<>>
    /\ sinkQ = <<>>
    /\ stop_request = FALSE
    /\ recording = FALSE
    /\ callback_safe = FALSE
    /\ have_generator = FALSE
    /\ generator = <<>>
    /\ installs = 0
    /\ srcPc = "wait_running"
    /\ closerPc = "idle"
    /\ NoSink
    /\ placed = <<>>
    /\ audio = <<>>
    /\ blocksize = BlockSize
    /\ written = <<>>
    /\ DeviceBuilt
    /\ NoMonitor

\* Streamer.start_streaming: self.stop_request.clear(); self.start()
StreamsCallerStart ==
    /\ callerPc = "start"
    /\ kind = "stream"
    /\ stop_request' = FALSE
    /\ callerPc' = "wait_running"
    /\ streamerPc' = "spawned"
    /\ UNCHANGED <<cfgVars, cbVars, bufVars, session, sourceQ, sinkQ,
                   recording, callback_safe, srcVars, closerPc, written,
                   bufferQ, timerPc, ret, running, finished, cbActive, finPc>>

\* The next Streamer is built once the process of the last one is gone.
\* finished, callback_safe, recording and statuses are class attributes and
\* running, stop_request and the queues belong to the context: the new
\* instance finds them as the last one left them.
NewSession ==
    /\ kind = "stream"
    /\ session < MaxSessions
    /\ callerPc = "returned"
    /\ streamerPc = "exited"
    /\ finPc = "done"
    /\ session' = session + 1
    /\ callerPc' = "start"
    /\ streamerPc' = "idle"
    /\ finPc' = "idle"
    /\ closerPc' = "idle"
    /\ UNCHANGED <<cfgVars, cbVars, bufVars, sourceQ, sinkQ, stop_request,
                   recording, callback_safe, srcVars, written, bufferQ,
                   timerPc, ret, running, finished, cbActive>>

\* Streamer._callback with _start_of_callback and _end_of_callback.  The
\* block taken from sourceQ is bound to a local name and is not copied to
\* outdata, which keeps what it held; get_nowait raises Empty out of the
\* callback when sourceQ is empty.
StreamerCallback(status, stale) ==
    /\ kind = "stream"
    /\ outdata' = stale
    /\ sinkQ' = (IF recording THEN Append(sinkQ, InputBlock) ELSE sinkQ)
    /\ IF sourceQ = <<>>
       THEN /\ CallbackRaises
            /\ callback_safe' = FALSE
            /\ UNCHANGED <<sourceQ, statuses, written>>
       ELSE /\ sourceQ' = Tail(sourceQ)
            /\ callback_safe' = TRUE
            /\ statuses' = RecordStatus(status)
            /\ written' = Append(written, stale)
            /\ IF stop_request THEN CallbackStop ELSE CallbackReturns
    /\ UNCHANGED <<idx, played, captured, puts>>

\* One invocation of Streamer._callback by the backend.
StreamsTick ==
    /\ cbActive
    /\ finPc = "idle"
    /\ \E status \in BOOLEAN, stale \in StaleOutput :
          StreamerCallback(status, stale)
    /\ UNCHANGED <<cfgVars, bufVars, session, stop_request, recording,
                   srcVars, closerPc, bufferQ, timerPc, ret, running,
                   finished, streamerPc, callerPc>>

\* Source.replace_generator_data(audio), audio of the given frames
PlaceAudioOf(frames) ==
    /\ installs < MaxInstalls
    /\ installs' = installs + 1
    /\ audio' = Frames(1, frames)
    /\ generator' = PrepareForPlaying(audio', blocksize)
    /\ have_generator' = TRUE
    /\ UNCHANGED <<cfgVars, cbVars, bufVars, session, sourceQ, sinkQ,
                   stop_request, recording, callback_safe, srcPc, placed,
                   blocksize,
                   closerPc, written, bufferQ, timerPc, ret, running,
                   finished, cbActive, streamerPc, finPc, callerPc>>

\* Source.replace_generator_data with an audio of whole blocks
PlaceAudio == \E n \in 1..MaxBlocks : PlaceAudioOf(n * BlockSize)

\* Source.run: self.running.wait()
SourceRunningSeen ==
    /\ srcPc = "wait_running"
    /\ running
    /\ srcPc' = "loop"
    /\ UNCHANGED <<cfgVars, cbVars, bufVars, session, sourceQ, sinkQ,
                   stop_request, recording, callback_safe, have_generator,
                   generator, installs, placed, audio, blocksize,
                   closerPc, written, bufferQ,
                   timerPc, ret, running, finished, cbActive, streamerPc,
                   finPc, callerPc>>

\* Source.run: self.q.put_nowait(self.generator.next_audio_block())
SourcePush ==
    /\ srcPc = "loop"
    /\ have_generator
    /\ generator # <<>>
    /\ ~QueueFull(sourceQ, SemValueMax)
    /\ sourceQ' = Append(sourceQ, Head(generator))
    /\ placed' = Append(placed, Head(generator))
    /\ generator' = Tail(generator)
    /\ UNCHANGED <<cfgVars, cbVars, bufVars, session, sinkQ, stop_request,
                   recording, callback_safe, have_generator, installs, srcPc,
                   audio, blocksize,
                   closerPc, written, bufferQ, timerPc, ret, running,
                   finished, cbActive, streamerPc, finPc, callerPc>>

\* Source.run, except StopIteration: the thread leaves when running is
\* clear; otherwise zeros(size, channels) is evaluated, which hands the
\* channel count to numpy as a dtype and raises TypeError: the thread ends
\* and neither the silence block nor the clear of have_generator happens.
SourceExhausted ==
    /\ srcPc = "loop"
    /\ have_generator
    /\ generator = <<>>
    /\ srcPc' = (IF ~running THEN "exited" ELSE "crashed")
    /\ UNCHANGED <<cfgVars, cbVars, bufVars, session, sourceQ, sinkQ,
                   stop_request, recording, callback_safe, have_generator,
                   generator, installs, placed, audio, blocksize,
                   closerPc, written, bufferQ,
                   timerPc, ret, running, finished, cbActive, streamerPc,
                   finPc, callerPc>>

\* Source.run: a turn of the loop that finds have_generator clear does
\* nothing and tests nothing else.
SourceSpin ==
    /\ srcPc = "loop"
    /\ ~have_generator
    /\ UNCHANGED vars

\* RealTimeContext.close_stream: self._stop_requested.set()
CloseStreamRequest ==
    /\ closerPc = "idle"
    /\ callerPc # "start"
    /\ stop_request' = TRUE
    /\ closerPc' = "drain"
    /\ UNCHANGED <<cfgVars, cbVars, bufVars, session, sourceQ, sinkQ,
                   recording, callback_safe, srcVars, written, bufferQ,
                   timerPc, ret, running, finished, cbActive, streamerPc,
                   finPc, callerPc>>

\* RealTimeContext._sink_and_source_cleanup: while the Source thread is
\* alive and its queue is not empty, take one block and drop it; then join
\* and clear _online.
CloseStreamDrain ==
    /\ closerPc = "drain"
    /\ IF srcPc \in {"wait_running", "loop"} /\ sourceQ # <<>>
       THEN /\ sourceQ' = Tail(sourceQ)
            /\ UNCHANGED closerPc
       ELSE /\ closerPc' = "done"
            /\ UNCHANGED sourceQ
    /\ UNCHANGED <<cfgVars, cbVars, bufVars, session, sinkQ, stop_request,
                   recording, callback_safe, srcVars, written, bufferQ,
                   timerPc, ret, running, finished, cbActive, streamerPc,
                   finPc, callerPc>>

NextStreams ==
    \/ StreamsCallerStart
    \/ CallerWaitRunning
    \/ CallerWaitFinished
    \/ NewSession
    \/ StreamOpen
    \/ StreamSetRunning
    \/ StreamExit
    \/ StreamsTick
    \/ FinishedClearRunning
    \/ FinishedSetFinished
    \/ PlaceAudio
    \/ SourceRunningSeen
    \/ SourcePush
    \/ SourceExhausted
    \/ CloseStreamRequest
    \/ CloseStreamDrain

\* Sessions of streams/streamer.py fed by the Source thread of buffer.py.
SpecStreams == InitStreams /\ [][NextStreams]_vars

NextSource ==
    \/ StreamsCallerStart
    \/ CallerWaitRunning
    \/ CallerWaitFinished
    \/ StreamOpen
    \/ StreamSetRunning
    \/ StreamExit
    \/ StreamsTick
    \/ FinishedClearRunning
    \/ FinishedSetFinished
    \/ PlaceAudio
    \/ SourceRunningSeen
    \/ SourcePush
    \/ SourceExhausted
    \/ SourceSpin
    \/ CloseStreamRequest
    \/ CloseStreamDrain

\* The scheduler keeps every thread and process running: the streamer with
\* its callbacks and its finished callback, and the Source thread.  What
\* the user calls, and when, is not forced.
FairSource ==
    /\ WF_vars(StreamOpen)
    /\ WF_vars(StreamSetRunning)
    /\ WF_vars(StreamExit)
    /\ WF_vars(StreamsTick)
    /\ WF_vars(FinishedClearRunning)
    /\ WF_vars(FinishedSetFinished)
    /\ WF_vars(SourceRunningSeen)
    /\ WF_vars(SourcePush)
    /\ WF_vars(SourceExhausted)
    /\ WF_vars(SourceSpin)

\* One session of streams/streamer.py with the Source thread, under fair
\* scheduling.
SpecSource == InitStreams /\ [][NextSource]_vars /\ FairSource

\* ============================================================== the Device

\* Streamer processes device.py builds in one run of the model.
MaxStreamers == 2

\* Every process but the caller's own, and what is left of the engine state
\* when only the Device and its processes are looked at.
engineVars == <<kind, block, nframes, durationSamples, maxsize, cbVars,
                bufVars, streamsVars, bufferQ, timerPc, ret, finished,
                cbActive, streamerPc, finPc, callerPc, contVars, sinkVars>>

\* No finite session of the detailed engine model is set up; a Queue()
\* holds cap items.
EngineIdle(cap) ==
    /\ kind = "none"
    /\ block = FALSE
    /\ nframes = 0
    /\ durationSamples = 0
    /\ maxsize = cap
    /\ idx = 0
    /\ bufferQ = <<>>
    /\ statuses = <<>>
    /\ finished = FALSE
    /\ cbActive = FALSE
    /\ paResult = "none"
    /\ streamerPc = "idle"
    /\ finPc = "idle"
    /\ callerPc = "idle"
    /\ bufPc = "absent"
    /\ bufIdx = 0
    /\ buffer = <<>>
    /\ timerPc = "absent"
    /\ ret = <<>>
    /\ outdata = Zeros(BlockSize)
    /\ played = <<>>
    /\ captured = <<>>
    /\ puts = 0

NoSessionOn(cap) == EngineIdle(cap) /\ NoStreams

NoSession == NoSessionOn(SemValueMax)

\* Channel lists a caller may assign: every list of up to MaxChannels + 1
\* indices out of 0..MaxChannels, the empty list included.
Mappings == UNION {[1..n -> 0..MaxChannels] : n \in 0..(MaxChannels + 1)}

\* Sample rates a caller may assign; 0 is a rate no backend accepts.
Rates == SupportedRates \cup {0}

\* Monitor classes, each with its arguments, a caller may plug; "None" is
\* the value None.
MonitorSubs == {"None", "MonA"}

\* mapping.sort()
Sorted(mapping) == SortSeq(mapping, LAMBDA a, b : a < b)

\* max(mapping)
SeqMax(mapping) ==
    CHOOSE m \in {mapping[i] : i \in 1..Len(mapping)} :
        \A i \in 1..Len(mapping) : mapping[i] <= m

\* check_input_settings / check_output_settings of sounddevice: the backend
\* accepts a channel count of the device and a sample rate it supports.
CheckSettings(channels, fs) ==
    channels \in 1..MaxChannels /\ fs \in SupportedRates

\* A call of the given name that ended the given way.
Called(name, result) == [name |-> name, result |-> result, online |-> online]

\* The channel-list setter without its test of _online: what it would do if
\* lines 110 and 129 of device.py were absent.
MappingOutcomeUnguarded(mapping, current) ==
    IF mapping = <<>> THEN [call |-> "ValueError", value |-> current]
    ELSE IF Len(mapping) > MaxChannels \/ SeqMax(mapping) >= MaxChannels
         THEN [call |-> "ValueError", value |-> current]
    ELSE IF ~CheckSettings(Sorted(mapping)[Len(mapping)] + 1, samplerate)
         THEN [call |-> "PortAudioError", value |-> current]
    ELSE [call |-> "returned", value |-> Sorted(mapping)]

\* How a setter taking a channel list ends, and the list it stores.
\* Device.inputs.setter and Device.outputs.setter have the same body.
MappingOutcome(mapping, current) ==
    IF online THEN [call |-> "returned", value |-> current]
    ELSE IF mapping = <<>> THEN [call |-> "ValueError", value |-> current]
    ELSE IF Len(mapping) > MaxChannels \/ SeqMax(mapping) >= MaxChannels
         THEN [call |-> "ValueError", value |-> current]
    ELSE IF ~CheckSettings(Sorted(mapping)[Len(mapping)] + 1, samplerate)
         THEN [call |-> "PortAudioError", value |-> current]
    ELSE [call |-> "returned", value |-> Sorted(mapping)]

\* Device.inputs = mapping
SetInputs(mapping) ==
    /\ devPc.pc = "idle"
    /\ inputs' = MappingOutcome(mapping, inputs).value
    /\ lastCall' = Called("inputs", MappingOutcome(mapping, inputs).call)
    /\ UNCHANGED <<engineVars, monVars, running, online, samplerate, outputs,
                   has_monitor, extern_monitor, MonitorSub, streamers, devPc>>

\* Device.outputs = mapping
SetOutputs(mapping) ==
    /\ devPc.pc = "idle"
    /\ outputs' = MappingOutcome(mapping, outputs).value
    /\ lastCall' = Called("outputs", MappingOutcome(mapping, outputs).call)
    /\ UNCHANGED <<engineVars, monVars, running, online, samplerate, inputs,
                   has_monitor, extern_monitor, MonitorSub, streamers, devPc>>

\* Device.samplerate = fs
SetSamplerate(fs) ==
    /\ devPc.pc = "idle"
    /\ IF online
       THEN /\ lastCall' = Called("samplerate", "returned")
            /\ UNCHANGED samplerate
       ELSE IF ~CheckSettings(inputs[Len(inputs)] + 1, fs)
               \/ ~CheckSettings(outputs[Len(outputs)] + 1, fs)
       THEN /\ lastCall' = Called("samplerate", "PortAudioError")
            /\ UNCHANGED samplerate
       ELSE /\ lastCall' = Called("samplerate", "returned")
            /\ samplerate' = fs
    /\ UNCHANGED <<engineVars, monVars, running, online, inputs, outputs,
                   has_monitor, extern_monitor, MonitorSub, streamers, devPc>>

\* Device.plug_monitor(MonitorSub, args, kwargs)
PlugMonitor(sub) ==
    /\ devPc.pc = "idle"
    /\ IF online
       THEN UNCHANGED <<has_monitor, extern_monitor, MonitorSub>>
       ELSE /\ has_monitor' = (sub # "None")
            /\ extern_monitor' = FALSE
            /\ MonitorSub' = sub
    /\ lastCall' = Called("plug_monitor", "returned")
    /\ UNCHANGED <<engineVars, monVars, running, online, samplerate, inputs,
                   outputs,
                   streamers, devPc>>

\* Device.use_external_monitor()
UseExternalMonitor ==
    /\ devPc.pc = "idle"
    /\ has_monitor' = TRUE
    /\ extern_monitor' = TRUE
    /\ lastCall' = Called("use_external_monitor", "returned")
    /\ UNCHANGED <<engineVars, monVars, running, online, samplerate, inputs,
                   outputs,
                   MonitorSub, streamers, devPc>>

\* The caller is not inside a call on the Device.
DevIdle == [pc |-> "idle", kind |-> "none", block |-> FALSE]

\* Process.is_alive() of the streamer process i.
Alive(i) == streamers[i].pc \in {"spawned", "streaming", "finished"}

\* The module level name _streamer: the process built last.  Before the
\* first one is built it names the placeholder, which was never started.
CurrentAlive == streamers # <<>> /\ Alive(Len(streamers))

\* The Device starts and cleans up a monitor of its own.
MonitorPlugged == has_monitor /\ ~extern_monitor

\* _monitor.is_alive()
MonitorAlive == monPc \in {"wait_running", "inner"}

\* _monitor_cleanup(): the queue is emptied when the monitor is alive; the
\* join that follows has a timeout and ends whether or not the monitor did.
MonitorCleanup(q) == IF MonitorAlive THEN <<>> ELSE q

\* _start_monitor(): a new monitor object, its window all zero, is started
\* in place of the one the global _monitor held; the history of its
\* process_data calls and the count of blocks put for it start empty.
StartMonitor ==
    /\ monData' = Zeros(numSamples)
    /\ frameCount' = 0
    /\ monPc' = "wait_running"
    /\ processed' = <<>>
    /\ pushed' = 0
    /\ consumed' = <<>>

\* play / record / playrec entered while _online is clear: the call goes
\* on with _streamer_cleanup().
FiniteCallBegin(k, b) ==
    /\ devPc = DevIdle
    /\ ~online
    /\ Len(streamers) < MaxStreamers
    /\ devPc' = [pc |-> "cleanup", kind |-> k, block |-> b]
    /\ lastCall' = Called(k, "pending")
    /\ UNCHANGED <<engineVars, monVars, running, online, samplerate, inputs,
                   outputs,
                   has_monitor, extern_monitor, MonitorSub, streamers>>

\* Where a call goes on after _streamer_cleanup().
AfterCleanup ==
    IF devPc.kind = "turn_off" THEN DevIdle
    ELSE [devPc EXCEPT !.pc = "setup"]

\* _streamer_cleanup: _streamer is not alive, or it ends while
\* join(timeout=5.) waits for it; close() releases the process object.
StreamerCleanupJoined ==
    /\ devPc.pc = "cleanup"
    /\ ~CurrentAlive
    /\ devPc' = AfterCleanup
    /\ lastCall' = (IF devPc.kind = "turn_off"
                    THEN [lastCall EXCEPT !.result = "returned"]
                    ELSE lastCall)
    /\ UNCHANGED <<engineVars, monVars, running, online, samplerate, inputs,
                   outputs,
                   has_monitor, extern_monitor, MonitorSub, streamers>>

\* _streamer_cleanup: _streamer is alive, so its monitorQ -- the monitor
\* queue of the Device, whoever reads it -- and its bufferQ are emptied;
\* join(timeout=5.) returns with the process still alive; close() raises
\* ValueError, which the except clause swallows.
StreamerCleanupTimeout ==
    /\ devPc.pc = "cleanup"
    /\ CurrentAlive
    /\ monitorQ' = <<>>
    /\ streamers' = [streamers EXCEPT ![Len(streamers)].bufferQ = <<>>]
    /\ devPc' = AfterCleanup
    /\ lastCall' = (IF devPc.kind = "turn_off"
                    THEN [lastCall EXCEPT !.result = "returned"]
                    ELSE lastCall)
    /\ UNCHANGED <<engineVars, monData, frameCount, monPc, processed, pushed,
                   consumed, running, online, samplerate, inputs,
                   outputs,
                   has_monitor, extern_monitor, MonitorSub>>

\* A streamer process as _setup_streamer builds it and start() spawns it.
\* The fields from cpc on are those of _ContinuousStreamer.__init__ -- cpc
\* the position of its run() loop, pending the request run() holds between
\* the steps of _new_playdata (0 for none) --
\* and stay as they are in a _Player, _Recorder or _PlaybackRecorder.
NewStreamer(k, b) ==
    [kind |-> k, block |-> b, pc |-> "spawned", finished |-> FALSE,
     cpc |-> "init", playIdx |-> 0, playdata |-> Zeros(BlockSize),
     playSamples |-> BlockSize, pending |-> 0,
     recIdx |-> 0, recSamples |-> BlockSize, recording |-> FALSE,
     bufferQ |-> <<>>, statuses |-> <<>>]

\* _setup_streamer(...) and start_streaming(): self.start()
SetupAndStart ==
    /\ devPc.pc = "setup"
    /\ streamers' = Append(streamers, NewStreamer(devPc.kind, devPc.block))
    /\ devPc' = [devPc EXCEPT !.pc = "wait_running"]
    /\ IF MonitorPlugged
       THEN StartMonitor /\ monitorQ' = MonitorCleanup(monitorQ)
       ELSE UNCHANGED monVars
    /\ UNCHANGED <<engineVars, running, online, samplerate, inputs, outputs,
                   has_monitor, extern_monitor, MonitorSub, lastCall>>

\* start_streaming(): self.running.wait() returns; a call that does not
\* block returns to the caller.
DeviceWaitRunning ==
    /\ devPc.pc = "wait_running"
    /\ running
    /\ IF devPc.block
       THEN /\ devPc' = [devPc EXCEPT !.pc = "wait_finished"]
            /\ UNCHANGED lastCall
       ELSE /\ devPc' = DevIdle
            /\ lastCall' = [lastCall EXCEPT !.result = "returned"]
    /\ UNCHANGED <<engineVars, monVars, running, online, samplerate, inputs,
                   outputs,
                   has_monitor, extern_monitor, MonitorSub, streamers>>

\* start_streaming(): self.finished.wait() returns, and so does the call.
DeviceWaitFinished ==
    /\ devPc.pc = "wait_finished"
    /\ streamers[Len(streamers)].finished
    /\ devPc' = DevIdle
    /\ lastCall' = [lastCall EXCEPT !.result = "returned"]
    /\ UNCHANGED <<engineVars, monVars, running, online, samplerate, inputs,
                   outputs,
                   has_monitor, extern_monitor, MonitorSub, streamers>>

\* Device.turn_on(): _online.set(), _setup_streamer(_ContinuousStreamer,
\* ...) and start_streaming(): self.start().  No cleanup comes first.
TurnOn ==
    /\ devPc = DevIdle
    /\ Len(streamers) < MaxStreamers
    /\ online' = TRUE
    /\ streamers' = Append(streamers, NewStreamer("continuous", FALSE))
    /\ devPc' = [pc |-> "wait_running", kind |-> "turn_on", block |-> FALSE]
    /\ lastCall' = Called("turn_on", "pending")
    /\ IF MonitorPlugged
       THEN StartMonitor /\ UNCHANGED monitorQ
       ELSE UNCHANGED monVars
    /\ UNCHANGED <<engineVars, running, samplerate, inputs, outputs,
                   has_monitor, extern_monitor, MonitorSub>>

\* Device.turn_off(): _streamer.running.clear(), _online.clear(); the call
\* goes on with _streamer_cleanup().  While _streamer is still the module
\* level placeholder, built without a running Event, _streamer.running is
\* None and the first statement raises AttributeError.
TurnOff ==
    /\ devPc = DevIdle
    /\ IF streamers = <<>>
       THEN /\ lastCall' = Called("turn_off", "AttributeError")
            /\ UNCHANGED <<running, online, devPc, monitorQ>>
       ELSE /\ running' = FALSE
            /\ online' = FALSE
            /\ devPc' = [pc |-> "cleanup", kind |-> "turn_off",
                         block |-> FALSE]
            /\ lastCall' = Called("turn_off", "pending")
            /\ monitorQ' = (IF MonitorPlugged THEN MonitorCleanup(monitorQ)
                                              ELSE monitorQ)
    /\ UNCHANGED <<engineVars, monData, frameCount, monPc, processed, pushed,
                   consumed,
                   samplerate, inputs, outputs, has_monitor, extern_monitor,
                   MonitorSub, streamers>>

\* run() of streamer i: the stream is open; self.running.set()
StreamerSetRunning(i) ==
    /\ streamers[i].pc = "spawned"
    /\ streamers' = [streamers EXCEPT ![i].pc = "streaming"]
    /\ running' = TRUE
    /\ UNCHANGED <<engineVars, monVars, online, samplerate, inputs,
                   outputs,
                   has_monitor, extern_monitor, MonitorSub, lastCall, devPc>>

\* The stream of streamer i stops -- a finite one when its last callback
\* raised CallbackStop, a continuous one when run() found running clear and
\* left the with block -- and _finished_streaming runs: running.clear(),
\* finished.set().
StreamerFinished(i) ==
    /\ streamers[i].pc = "streaming"
    /\ streamers[i].kind = "continuous" =>
          (streamers[i].cpc = "head" /\ ~running)
    /\ streamers' = [streamers EXCEPT ![i].pc = "finished",
                                      ![i].finished = TRUE]
    /\ running' = FALSE
    /\ UNCHANGED <<engineVars, monVars, online, samplerate, inputs,
                   outputs,
                   has_monitor, extern_monitor, MonitorSub, lastCall, devPc>>

\* run() of streamer i returns and the process ends.
StreamerExit(i) ==
    /\ streamers[i].pc = "finished"
    /\ streamers' = [streamers EXCEPT ![i].pc = "exited"]
    /\ UNCHANGED <<engineVars, monVars, running, online, samplerate, inputs,
                   outputs,
                   has_monitor, extern_monitor, MonitorSub, lastCall, devPc>>

\* _ContinuousStreamer.run of streamer i: self.finished.set(), after
\* self.running.set().
ContSetFinished(i) ==
    /\ streamers[i].kind = "continuous"
    /\ streamers[i].pc = "streaming"
    /\ streamers[i].cpc = "init"
    /\ streamers' = [streamers EXCEPT ![i].cpc = "head",
                                      ![i].finished = TRUE]
    /\ UNCHANGED <<engineVars, monVars, running, online, samplerate, inputs,
                   outputs, has_monitor, extern_monitor, MonitorSub, lastCall,
                   devPc>>

\* run(): while self.running.is_set(), found set
ContLoopHead(i) ==
    /\ streamers[i].pc = "streaming"
    /\ streamers[i].cpc = "head"
    /\ running
    /\ streamers' = [streamers EXCEPT ![i].cpc = "get"]
    /\ UNCHANGED <<engineVars, monVars, running, online, samplerate, inputs,
                   outputs, has_monitor, extern_monitor, MonitorSub, lastCall,
                   devPc>>

\* run(): self._playQ.get(timeout=5.) raises Empty; continue
ContGetTimeout(i) ==
    /\ streamers[i].pc = "streaming"
    /\ streamers[i].cpc = "get"
    /\ playQ = <<>>
    /\ streamers' = [streamers EXCEPT ![i].cpc = "head"]
    /\ UNCHANGED <<engineVars, monVars, running, online, samplerate, inputs,
                   outputs, has_monitor, extern_monitor, MonitorSub, lastCall,
                   devPc>>

InitDevice ==
    /\ NoSession
    /\ running = FALSE
    /\ DeviceBuilt
    /\ NoMonitor

NextDevice ==
    \/ \E sub \in MonitorSubs : PlugMonitor(sub)
    \/ UseExternalMonitor
    \/ \E k \in {"play", "record", "playrec"}, b \in BOOLEAN :
          FiniteCallBegin(k, b)
    \/ StreamerCleanupJoined
    \/ StreamerCleanupTimeout
    \/ SetupAndStart
    \/ DeviceWaitRunning
    \/ DeviceWaitFinished
    \/ TurnOn
    \/ TurnOff
    \/ \E i \in 1..Len(streamers) : StreamerSetRunning(i)
    \/ \E i \in 1..Len(streamers) : ContSetFinished(i)
    \/ \E i \in 1..Len(streamers) : ContLoopHead(i)
    \/ \E i \in 1..Len(streamers) : ContGetTimeout(i)
    \/ \E i \in 1..Len(streamers) : StreamerFinished(i)
    \/ \E i \in 1..Len(streamers) : StreamerExit(i)

\* The Device of device.py: its monitor plugging and the streamer processes
\* its calls start and clean up.
SpecDevice == InitDevice /\ [][NextDevice]_vars

NextConfig ==
    \/ \E mapping \in Mappings : SetInputs(mapping)
    \/ \E mapping \in Mappings : SetOutputs(mapping)
    \/ \E fs \in Rates : SetSamplerate(fs)
    \/ TurnOn
    \/ TurnOff
    \/ StreamerCleanupJoined
    \/ StreamerCleanupTimeout
    \/ DeviceWaitRunning
    \/ \E i \in 1..Len(streamers) : StreamerSetRunning(i)
    \/ \E i \in 1..Len(streamers) : ContSetFinished(i)
    \/ \E i \in 1..Len(streamers) : ContLoopHead(i)
    \/ \E i \in 1..Len(streamers) : ContGetTimeout(i)
    \/ \E i \in 1..Len(streamers) : StreamerFinished(i)
    \/ \E i \in 1..Len(streamers) : StreamerExit(i)

\* The configuration of the Device -- sample rate and channel lists --
\* assigned while continuous mode is turned on and off.
SpecConfig == InitDevice /\ [][NextConfig]_vars

\* ============================================================ the monitor
\* monitor.py: MonitorThread.run and MonitorProcess.run are the same code.

\* process_data calls and monitor blocks followed in one run of the model.
MaxCalls == 3

MaxPushed == 3

\* roll(self.data, -shift); self.data[-shift:] = block
Roll(window, blk) ==
    SubSeq(window, Len(blk) + 1, Len(window)) \o blk

\* The callback of a streamer whose stream is open puts one block on the
\* monitor queue when _has_monitor is set; the frames are numbered in the
\* order in which they are put.
MonitorPush ==
    /\ has_monitor
    /\ \E i \in 1..Len(streamers) : streamers[i].pc = "streaming"
    /\ pushed < MaxPushed
    /\ monitorQ' = Append(monitorQ, Frames(pushed * BlockSize + 1,
                                           (pushed + 1) * BlockSize))
    /\ pushed' = pushed + 1
    /\ UNCHANGED <<engineVars, devVars, running, monData, frameCount,
                   monPc,
                   processed, consumed>>

\* run(): self.setup(); self.running.wait()
MonitorRunningSeen ==
    /\ monPc = "wait_running"
    /\ running
    /\ monPc' = "inner"
    /\ UNCHANGED <<engineVars, devVars, running, monitorQ, monData,
                   frameCount,
                   processed, pushed, consumed>>

\* numpy.roll(window, -shift, axis=0): the frames move shift places towards
\* the start, those that leave at the start coming back at the end.
NumpyRoll(window, shift) ==
    LET k == shift % Len(window)
    IN  SubSeq(window, k + 1, Len(window)) \o SubSeq(window, 1, k)

\* self.data[-shift:, :] = block is an assignment numpy accepts: the slice
\* has shift frames.  For shift = 0 the slice -0: is the whole window, and
\* for shift above the window size it is clipped to the whole window; a
\* block of another frame count cannot be broadcast into it (ValueError).
BlockFits(window, blk) == Len(blk) >= 1 /\ Len(blk) <= Len(window)

\* run(): q.get(timeout=interval) returns a block; the window is rolled and
\* the block written at its end; once frameCount reaches numSamples the inner
\* loop ends, process_data gets the window and the outer loop starts over.
\* A block that does not fit leaves the window rolled and ends run() with
\* the ValueError of the assignment.
MonitorGet ==
    /\ monPc = "inner"
    /\ monitorQ # <<>>
    /\ LET blk == Head(monitorQ)
           win == Roll(monData, blk)
           fc  == frameCount + Len(blk)
       IN  /\ monitorQ' = Tail(monitorQ)
           /\ consumed' = consumed \o blk
           /\ IF BlockFits(monData, blk)
              THEN /\ monData' = win
                   /\ UNCHANGED monPc
                   /\ IF fc >= numSamples
                      THEN /\ Len(processed) < MaxCalls
                           /\ processed' = Append(processed, win)
                           /\ frameCount' = 0
                      ELSE /\ frameCount' = fc
                           /\ UNCHANGED processed
              ELSE /\ monData' = NumpyRoll(monData, Len(blk))
                   /\ monPc' = "raised"
                   /\ UNCHANGED <<frameCount, processed>>
    /\ UNCHANGED <<engineVars, devVars, running, pushed>>

\* run(): q.get(timeout=interval) raises Empty; the inner loop ends,
\* process_data gets the window as it is, and run() ends when no block came
\* in this round and running is clear.
MonitorEmpty ==
    /\ monPc = "inner"
    /\ monitorQ = <<>>
    /\ Len(processed) < MaxCalls
    /\ processed' = Append(processed, monData)
    /\ monPc' = (IF frameCount = 0 /\ ~running THEN "done" ELSE "inner")
    /\ frameCount' = 0
    /\ UNCHANGED <<engineVars, devVars, running, monitorQ, monData, pushed,
                   consumed>>

NextMonitor ==
    \/ \E sub \in MonitorSubs : PlugMonitor(sub)
    \/ TurnOn
    \/ TurnOff
    \/ StreamerCleanupJoined
    \/ StreamerCleanupTimeout
    \/ DeviceWaitRunning
    \/ \E i \in 1..Len(streamers) : StreamerSetRunning(i)
    \/ \E i \in 1..Len(streamers) : ContSetFinished(i)
    \/ \E i \in 1..Len(streamers) : ContLoopHead(i)
    \/ \E i \in 1..Len(streamers) : ContGetTimeout(i)
    \/ \E i \in 1..Len(streamers) : StreamerFinished(i)
    \/ \E i \in 1..Len(streamers) : StreamerExit(i)
    \/ MonitorPush
    \/ MonitorRunningSeen
    \/ MonitorGet
    \/ MonitorEmpty

\* A Device with a monitor plugged, turned on and off.
SpecMonitor == InitDevice /\ [][NextMonitor]_vars

NextShutdown ==
    \/ \E sub \in MonitorSubs : PlugMonitor(sub)
    \/ \E k \in {"play", "record", "playrec"}, b \in BOOLEAN :
          FiniteCallBegin(k, b)
    \/ StreamerCleanupJoined
    \/ StreamerCleanupTimeout
    \/ SetupAndStart
    \/ DeviceWaitRunning
    \/ DeviceWaitFinished
    \/ \E i \in 1..Len(streamers) : StreamerSetRunning(i)
    \/ \E i \in 1..Len(streamers) : StreamerFinished(i)
    \/ \E i \in 1..Len(streamers) : StreamerExit(i)
    \/ MonitorPush
    \/ MonitorRunningSeen
    \/ MonitorGet
    \/ MonitorEmpty

\* Every process and thread that can take a step is scheduled in the end:
\* the streamer process sets running, runs out of data and exits, and the
\* monitor goes on from running.wait() and round its loop.  The calls of the
\* user are not forced.
FairShutdown ==
    /\ \A i \in 1..MaxStreamers :
          /\ WF_vars(i \in 1..Len(streamers) /\ StreamerSetRunning(i))
          /\ WF_vars(i \in 1..Len(streamers) /\ StreamerFinished(i))
          /\ WF_vars(i \in 1..Len(streamers) /\ StreamerExit(i))
    /\ WF_vars(MonitorRunningSeen)
    /\ WF_vars(MonitorGet)
    /\ WF_vars(MonitorEmpty)

\* Finite sessions of a Device with a monitor plugged, under fair
\* scheduling.
SpecShutdown == InitDevice /\ [][NextShutdown]_vars /\ FairShutdown

\* Blocks waiting for the monitor in one run of the window model.
MaxWindowBlocks == 3

\* The blocks whose frame counts are lens, their frames numbered from
\* `from` on in the order in which the callback put them.
RECURSIVE Numbered(_, _)
Numbered(lens, from) ==
    IF lens = <<>> THEN <<>>
    ELSE <<Frames(from, from + Head(lens) - 1)>>
            \o Numbered(Tail(lens), from + Head(lens))

\* Every queue of at most MaxWindowBlocks blocks of 0 to numSamples + 1
\* frames each.
WindowInputs ==
    UNION {{Numbered(lens, 1) : lens \in [1..n -> 0..(numSamples + 1)]} :
           n \in 0..MaxWindowBlocks}

\* A monitor in its loop, running set, with its window as __init__ built it
\* and any queue of blocks before it.
InitWindow ==
    /\ NoSession
    /\ running = TRUE
    /\ DeviceBuilt
    /\ monitorQ \in WindowInputs
    /\ monData = Zeros(numSamples)
    /\ frameCount = 0
    /\ monPc = "inner"
    /\ processed = <<>>
    /\ pushed = 0
    /\ consumed = <<>>
    /\ playQ = <<>>
    /\ workers = <<>>
    /\ ctxOnline = FALSE

NextWindow ==
    \/ MonitorGet
    \/ MonitorEmpty

\* The rolling window of a monitor fed blocks of any frame count.
SpecWindow == InitWindow /\ [][NextWindow]_vars

\* ======================================================== continuous mode
\* device.py with _ContinuousStreamer of _streamer.py, between turn_on and
\* turn_off; and what play, record and playrec of context.py do.

\* Frames of the longest play or record request made in continuous mode.
MaxRequest == 2

\* Play requests waiting in _playQ, buffer threads started, and status
\* flags the backend reports in one run of the model.
MaxQueued == 1

MaxWorkers == 2

MaxStatuses == 1

\* Everything of the engine state but the output block of the device.
engineButOutdata ==
    <<kind, block, nframes, durationSamples, maxsize, idx, statuses, paResult,
      played, captured, puts, bufVars, streamsVars, bufferQ, timerPc, ret,
      finished, cbActive, streamerPc, finPc, callerPc, sinkVars>>

\* recframes / playframes of _ContinuousStreamer._callback
ContFrames(frames, at, samples) ==
    IF frames + at <= samples THEN frames ELSE samples - at

\* The recording section of _callback.
ContRecord(st) ==
    LET recframes == ContFrames(BlockSize, st.recIdx, st.recSamples)
    IN  IF st.recording
        THEN [st EXCEPT !.bufferQ = Append(@, Frames(st.recIdx + 1,
                                                     st.recIdx + recframes)),
                        !.recIdx = @ + recframes,
                        !.recording = ~(recframes < BlockSize)]
        ELSE st

\* A slice bound k of a sequence of len items, as Python normalises it.
PyBound(len, k) ==
    IF k < 0 THEN Max(0, len + k) ELSE IF k <= len THEN k ELSE len

\* s[a:b]
PySlice(s, a, b) ==
    LET lo == PyBound(Len(s), a)
        hi == PyBound(Len(s), b)
    IN  IF lo < hi THEN SubSeq(s, lo + 1, hi) ELSE <<>>

\* self.playdata[self._playIdx.value:self._playIdx.value + playframes, :]
ContSource(st) ==
    LET playframes == ContFrames(BlockSize, st.playIdx, st.playSamples)
    IN  PySlice(st.playdata, st.playIdx, st.playIdx + playframes)

\* The rows of playdata[:playframes], the target of the assignment.
ContTarget(st) ==
    PyBound(BlockSize, ContFrames(BlockSize, st.playIdx, st.playSamples))

\* The assignment raises ValueError unless the source has as many rows as
\* the target, or the one row that numpy broadcasts.
ContShapeError(st) ==
    /\ ~st.finished
    /\ Len(ContSource(st)) # ContTarget(st)
    /\ Len(ContSource(st)) # 1

\* The playback section of _callback: the output block it leaves.
ContOutput(st) ==
    IF ~st.finished /\ ~ContShapeError(st)
    THEN [i \in 1..ContTarget(st) |->
             IF Len(ContSource(st)) = ContTarget(st)
             THEN ContSource(st)[i] ELSE ContSource(st)[1]]
            \o Zeros(BlockSize - ContTarget(st))
    ELSE Zeros(BlockSize)

\* A playback section that leaves the cursor and the Event alone.
ContPlayStill(st) == st

\* The playback section of _callback: the cursor and the finished Event.
ContPlay(st) ==
    LET playframes == ContFrames(BlockSize, st.playIdx, st.playSamples)
    IN  IF ~st.finished /\ ~ContShapeError(st)
        THEN [st EXCEPT !.playIdx = @ + playframes,
                        !.finished = (playframes < BlockSize)]
        ELSE st

\* if self._has_monitor.is_set(): self.monitorQ.put_nowait(...), on the
\* Queue() of Device.__init__, whose capacity is maxsize: the queue after
\* the put, and whether put_nowait raised Full.
MonitorPut(hm, mq, blk) ==
    IF ~hm THEN [q |-> mq, raised |-> FALSE]
    ELSE IF QueueFull(mq, maxsize) THEN [q |-> mq, raised |-> TRUE]
    ELSE [q |-> Append(mq, blk), raised |-> FALSE]

\* _ContinuousStreamer._callback on the streamer st, with _has_monitor hm,
\* the monitor queue mq, the block blk for the monitor and the status the
\* backend reports: the streamer and the output block it leaves, the
\* monitor queue, and whether an exception left the callback.  ValueError
\* from the playback section leaves before the monitor put, Full from the
\* monitor queue before the status is recorded; the backend then aborts the
\* stream and runs _finished_streaming.
ContCallback(st, hm, mq, blk, status) ==
    LET put    == MonitorPut(hm, mq, blk)
        after  == ContPlay(ContRecord(st))
        raised == ContShapeError(st) \/ put.raised
    IN  [st |-> IF raised
                THEN [after EXCEPT !.pc = "finished", !.finished = TRUE]
                ELSE [after EXCEPT !.statuses = IF status
                                                THEN Append(@, "flag")
                                                ELSE @],
         outdata |-> ContOutput(st),
         monitorQ |-> IF ContShapeError(st) THEN mq ELSE put.q,
         raised |-> raised]

\* The block the next callback puts for the monitor.
MonitorBlock == Frames(pushed * BlockSize + 1, (pushed + 1) * BlockSize)

\* _ContinuousStreamer._callback of streamer i, the backend reporting a
\* status flag or none.
ContTick(i) ==
    /\ streamers[i].kind = "continuous"
    /\ streamers[i].pc = "streaming"
    /\ has_monitor => pushed < MaxPushed
    /\ \E status \in BOOLEAN :
          /\ status => Len(streamers[i].statuses) < MaxStatuses
          /\ LET out == ContCallback(streamers[i], has_monitor, monitorQ,
                                     MonitorBlock, status)
             IN  /\ streamers' = [streamers EXCEPT ![i] = out.st]
                 /\ outdata' = out.outdata
                 /\ monitorQ' = out.monitorQ
                 /\ running' = (IF out.raised THEN FALSE ELSE running)
    /\ pushed' = (IF has_monitor THEN pushed + 1 ELSE pushed)
    /\ UNCHANGED <<engineButOutdata, contVars, monData, frameCount, monPc,
                   processed, consumed, online, samplerate, inputs,
                   outputs,
                   has_monitor, extern_monitor, MonitorSub, lastCall, devPc>>

\* run(): self._playQ.get(timeout=5.) returns a request;
\* self._new_playdata(playdata)
ContGet(i) ==
    /\ streamers[i].pc = "streaming"
    /\ streamers[i].cpc = "get"
    /\ playQ # <<>>
    /\ playQ' = Tail(playQ)
    /\ streamers' = [streamers EXCEPT ![i].cpc = "wait",
                                      ![i].playSamples = Head(playQ),
                                      ![i].playdata = Frames(1, Head(playQ)),
                                      ![i].playIdx = 0,
                                      ![i].finished = FALSE]
    /\ UNCHANGED <<engineButOutdata, outdata, workers, ctxOnline, monVars,
                   running, online, samplerate, inputs, outputs, has_monitor,
                   extern_monitor, MonitorSub, lastCall, devPc>>

\* run(): self.finished.wait(timeout=...) returns, finished set or not.
ContWaitDone(i) ==
    /\ streamers[i].pc = "streaming"
    /\ streamers[i].cpc = "wait"
    /\ streamers' = [streamers EXCEPT ![i].cpc = "head"]
    /\ UNCHANGED <<engineVars, monVars, running, online, samplerate, inputs,
                   outputs, has_monitor, extern_monitor, MonitorSub, lastCall,
                   devPc>>

\* run(): self.finished.wait(timeout=...) returns because finished is set.
ContWaitFinished(i) ==
    /\ streamers[i].finished
    /\ ContWaitDone(i)

\* run(): self._playQ.get(timeout=5.) returns a request; _new_playdata:
\* self._callback_safe.wait(), which a callback sets again on its way out;
\* self._playSamples.value = playdata.shape[0]
NewPlaydataSamples(i) ==
    /\ streamers[i].pc = "streaming"
    /\ streamers[i].cpc = "get"
    /\ playQ # <<>>
    /\ playQ' = Tail(playQ)
    /\ streamers' = [streamers EXCEPT ![i].cpc = "new_idx",
                                      ![i].pending = Head(playQ),
                                      ![i].playSamples = Head(playQ)]
    /\ UNCHANGED <<engineButOutdata, outdata, workers, ctxOnline, monVars,
                   running, online, samplerate, inputs, outputs, has_monitor,
                   extern_monitor, MonitorSub, lastCall, devPc>>

\* _new_playdata: self._playIdx.value = 0
NewPlaydataIdx(i) ==
    /\ streamers[i].pc = "streaming"
    /\ streamers[i].cpc = "new_idx"
    /\ streamers' = [streamers EXCEPT ![i].cpc = "new_data",
                                      ![i].playIdx = 0]
    /\ UNCHANGED <<engineVars, monVars, running, online, samplerate, inputs,
                   outputs, has_monitor, extern_monitor, MonitorSub, lastCall,
                   devPc>>

\* _new_playdata: self.playdata = playdata
NewPlaydataData(i) ==
    /\ streamers[i].pc = "streaming"
    /\ streamers[i].cpc = "new_data"
    /\ streamers' = [streamers EXCEPT
                        ![i].cpc = "new_clear",
                        ![i].playdata = Frames(1, streamers[i].pending)]
    /\ UNCHANGED <<engineVars, monVars, running, online, samplerate, inputs,
                   outputs, has_monitor, extern_monitor, MonitorSub, lastCall,
                   devPc>>

\* _new_playdata: self.finished.clear(); return
NewPlaydataClear(i) ==
    /\ streamers[i].pc = "streaming"
    /\ streamers[i].cpc = "new_clear"
    /\ streamers' = [streamers EXCEPT ![i].cpc = "wait",
                                      ![i].pending = 0,
                                      ![i].finished = FALSE]
    /\ UNCHANGED <<engineVars, monVars, running, online, samplerate, inputs,
                   outputs, has_monitor, extern_monitor, MonitorSub, lastCall,
                   devPc>>

\* _new_recdata(tlen) on the streamer the global _streamer names, called by
\* the caller for int(tlen * samplerate + 0.5) = n frames: the cursor is
\* reset, a _MemoryBuffer thread is started on the streamer's bufferQ with a
\* Timer for _buffer_cleanup, and _recording is set.
NewRecdata(n) ==
    /\ streamers' = [streamers EXCEPT
                        ![Len(streamers)].recSamples = PyInt(2 * n + 1),
                        ![Len(streamers)].recIdx = 0,
                        ![Len(streamers)].recording = TRUE]
    /\ workers' = Append(workers, [streamer |-> Len(streamers),
                                   pc |-> "wait", idx |-> 0,
                                   size |-> PyInt(2 * n + 1),
                                   timer |-> "armed"])

\* Device.play(data, block=b) while _online is set: block = False;
\* self._playQ.put(data)
OnlinePlay(n, b) ==
    /\ devPc = DevIdle
    /\ online
    /\ Len(playQ) < MaxQueued
    /\ playQ' = Append(playQ, n)
    /\ lastCall' = Called("play", "returned")
    /\ UNCHANGED <<engineButOutdata, outdata, workers, ctxOnline, monVars,
                   running, online, samplerate, inputs, outputs, has_monitor,
                   extern_monitor, MonitorSub, streamers, devPc>>

\* Device.record(tlen, block=b) while _online is set: block = False;
\* _streamer._new_recdata(tlen)
OnlineRecord(n, b) ==
    /\ devPc = DevIdle
    /\ online
    /\ Len(workers) < MaxWorkers
    /\ NewRecdata(n)
    /\ lastCall' = Called("record", "returned")
    /\ UNCHANGED <<engineButOutdata, outdata, playQ, ctxOnline, monVars,
                   running, online, samplerate, inputs, outputs, has_monitor,
                   extern_monitor, MonitorSub, devPc>>

\* Device.playrec(data, block=b) while _online is set: block = False;
\* self._playQ.put(data); _streamer._new_recdata(data.shape[0] / samplerate)
OnlinePlayrec(n, b) ==
    /\ devPc = DevIdle
    /\ online
    /\ Len(playQ) < MaxQueued
    /\ Len(workers) < MaxWorkers
    /\ playQ' = Append(playQ, n)
    /\ NewRecdata(n)
    /\ lastCall' = Called("playrec", "returned")
    /\ UNCHANGED <<engineButOutdata, outdata, ctxOnline, monVars, running,
                   online, samplerate, inputs, outputs, has_monitor,
                   extern_monitor, MonitorSub, devPc>>

\* _MemoryBuffer.run of thread w: self.running.wait(5.) returns, its Event
\* -- here _recording -- set or not.
WorkerStart(w) ==
    /\ workers[w].pc = "wait"
    /\ workers' = [workers EXCEPT ![w].pc = "loop"]
    /\ UNCHANGED <<engineButOutdata, outdata, playQ, ctxOnline, monVars,
                   devVars, running>>

\* _MemoryBuffer.run of thread w: self.q.get(1.) returns a block, which is
\* stored at idx; a block that does not fit what is left of the buffer
\* makes the assignment raise ValueError, which ends the thread.
WorkerPop(w) ==
    LET i   == workers[w].streamer
        blk == Head(streamers[i].bufferQ)
    IN  /\ workers[w].pc = "loop"
        /\ streamers[i].bufferQ # <<>>
        /\ streamers' = [streamers EXCEPT ![i].bufferQ = Tail(@)]
        /\ workers' =
              IF workers[w].idx + Len(blk) > workers[w].size
              THEN [workers EXCEPT ![w].pc = "raised"]
              ELSE [workers EXCEPT ![w].idx = @ + Len(blk)]
        /\ UNCHANGED <<engineButOutdata, outdata, playQ, ctxOnline, monVars,
                       running, online, samplerate, inputs, outputs,
                       has_monitor, extern_monitor, MonitorSub, lastCall,
                       devPc>>

\* _MemoryBuffer.is_alive() of thread w
WorkerAlive(w) == workers[w].pc \in {"wait", "loop"}

\* The Timer of thread w fires _buffer_cleanup: the queue of the thread the
\* global _buffer names -- the one started last -- is emptied when that
\* thread is alive.
ContBufferCleanup(w) ==
    LET last == Len(workers)
        i    == workers[last].streamer
    IN  /\ workers[w].timer = "armed"
        /\ workers' = [workers EXCEPT ![w].timer = "fired"]
        /\ streamers' = IF WorkerAlive(last)
                        THEN [streamers EXCEPT ![i].bufferQ = <<>>]
                        ELSE streamers
        /\ UNCHANGED <<engineButOutdata, outdata, playQ, ctxOnline, monVars,
                       running, online, samplerate, inputs, outputs,
                       has_monitor, extern_monitor, MonitorSub, lastCall,
                       devPc>>

\* A call on a RealTimeContext that ended the given way.
CtxCalled(name, result) ==
    [name |-> name, result |-> result, online |-> ctxOnline]

\* RealTimeContext.open_stream(): self._online.set(), then
\* _start_sink_and_source(), whose self.device.channels['input'] indexes a
\* list with a string and raises TypeError.
ContextOpenStream ==
    /\ devPc = DevIdle
    /\ ctxOnline' = TRUE
    /\ lastCall' = CtxCalled("open_stream", "TypeError")
    /\ UNCHANGED <<engineButOutdata, outdata, playQ, workers, monVars,
                   running, online, samplerate, inputs, outputs, has_monitor,
                   extern_monitor, MonitorSub, streamers, devPc>>

\* RealTimeContext.play / record / playrec(..., block=b).  With _online set
\* the first statement reads self._source, self._sink or self._playQ, none
\* of which the context has, and raises AttributeError before the
\* `if block == True: self._streamer.finished.wait()` that follows; with
\* _online clear the call does nothing and returns.
ContextCall(name, b) ==
    /\ devPc = DevIdle
    /\ lastCall' = CtxCalled(name, IF ctxOnline THEN "AttributeError"
                                               ELSE "returned")
    /\ UNCHANGED <<engineButOutdata, outdata, contVars, monVars, running,
                   online, samplerate, inputs, outputs, has_monitor,
                   extern_monitor, MonitorSub, streamers, devPc>>

Requests == 1..MaxRequest

SessionCalls == {"play", "record", "playrec"}

NextContinuous ==
    \/ TurnOn
    \/ TurnOff
    \/ StreamerCleanupJoined
    \/ StreamerCleanupTimeout
    \/ DeviceWaitRunning
    \/ \E i \in 1..Len(streamers) : StreamerSetRunning(i)
    \/ \E i \in 1..Len(streamers) : ContSetFinished(i)
    \/ \E i \in 1..Len(streamers) : ContLoopHead(i)
    \/ \E i \in 1..Len(streamers) : ContGetTimeout(i)
    \/ \E i \in 1..Len(streamers) : ContGet(i)
    \/ \E i \in 1..Len(streamers) : ContWaitDone(i)
    \/ \E i \in 1..Len(streamers) : ContTick(i)
    \/ \E i \in 1..Len(streamers) : StreamerFinished(i)
    \/ \E i \in 1..Len(streamers) : StreamerExit(i)
    \/ \E n \in Requests, b \in BOOLEAN : OnlinePlay(n, b)

\* Device.play while _online is set, in the session of the first turn_on.
PlayInFirstSession(n, b) ==
    /\ Len(streamers) = 1
    /\ OnlinePlay(n, b)

NextRestart ==
    \/ ~online /\ TurnOn
    \/ TurnOff
    \/ StreamerCleanupJoined
    \/ StreamerCleanupTimeout
    \/ DeviceWaitRunning
    \/ \E i \in 1..Len(streamers) : StreamerSetRunning(i)
    \/ \E i \in 1..Len(streamers) : ContSetFinished(i)
    \/ \E i \in 1..Len(streamers) : ContLoopHead(i)
    \/ \E i \in 1..Len(streamers) : ContGetTimeout(i)
    \/ \E i \in 1..Len(streamers) : ContGet(i)
    \/ \E i \in 1..Len(streamers) : ContWaitDone(i)
    \/ \E i \in 1..Len(streamers) : ContTick(i)
    \/ \E i \in 1..Len(streamers) : StreamerFinished(i)
    \/ \E i \in 1..Len(streamers) : StreamerExit(i)
    \/ \E n \in Requests, b \in BOOLEAN : PlayInFirstSession(n, b)

\* Continuous mode turned on, off and on again, turn_on being called only
\* while it is off and play requests being made in the first session only.
SpecRestart == InitDevice /\ [][NextRestart]_vars

NextExternal ==
    \/ UseExternalMonitor
    \/ \E k \in {"play", "record", "playrec"}, b \in BOOLEAN :
          FiniteCallBegin(k, b)
    \/ SetupAndStart
    \/ DeviceWaitRunning
    \/ DeviceWaitFinished
    \/ TurnOn
    \/ TurnOff
    \/ StreamerCleanupJoined
    \/ StreamerCleanupTimeout
    \/ \E i \in 1..Len(streamers) : StreamerSetRunning(i)
    \/ \E i \in 1..Len(streamers) : ContSetFinished(i)
    \/ \E i \in 1..Len(streamers) : ContLoopHead(i)
    \/ \E i \in 1..Len(streamers) : ContGetTimeout(i)
    \/ \E i \in 1..Len(streamers) : ContTick(i)
    \/ \E i \in 1..Len(streamers) : StreamerFinished(i)
    \/ \E i \in 1..Len(streamers) : StreamerExit(i)

\* A Device whose monitor queue was handed out by use_external_monitor,
\* in finite calls and in continuous mode; the consumer of the queue takes
\* nothing yet.
SpecExternal == InitDevice /\ [][NextExternal]_vars

\* Continuous mode of a Device with its play requests, from turn_on to
\* turn_off and on again.
SpecContinuous == InitDevice /\ [][NextContinuous]_vars

NextCalls ==
    \/ TurnOn
    \/ TurnOff
    \/ StreamerCleanupJoined
    \/ StreamerCleanupTimeout
    \/ DeviceWaitRunning
    \/ \E i \in 1..Len(streamers) : StreamerSetRunning(i)
    \/ \E i \in 1..Len(streamers) : ContSetFinished(i)
    \/ \E i \in 1..Len(streamers) : ContLoopHead(i)
    \/ \E i \in 1..Len(streamers) : ContGetTimeout(i)
    \/ \E i \in 1..Len(streamers) : ContGet(i)
    \/ \E i \in 1..Len(streamers) : ContWaitDone(i)
    \/ \E i \in 1..Len(streamers) : StreamerFinished(i)
    \/ \E i \in 1..Len(streamers) : StreamerExit(i)
    \/ \E n \in Requests, b \in BOOLEAN : OnlinePlay(n, b)
    \/ \E n \in Requests, b \in BOOLEAN : OnlineRecord(n, b)
    \/ \E n \in Requests, b \in BOOLEAN : OnlinePlayrec(n, b)
    \/ ContextOpenStream
    \/ \E name \in SessionCalls, b \in BOOLEAN : ContextCall(name, b)

\* The calls a caller makes in continuous mode, on a Device and on a
\* RealTimeContext, as the caller sees them end.
SpecCalls == InitDevice /\ [][NextCalls]_vars

\* ------------------------------------------------------------------- Sink

\* What neither the Sink thread nor replace_receiver_buffer writes.
butSink ==
    <<kind, block, nframes, durationSamples, maxsize, devVars, monVars,
      contVars, cbVars, bufVars, session, sourceQ, stop_request, recording,
      callback_safe, srcVars, closerPc, written, bufferQ, timerPc, ret,
      running, finished, cbActive, streamerPc, finPc, callerPc>>

\* AudioReceiver.next_audio_block without the cut to size.
NextAudioBlockUncut(rec, size, blk) ==
    LET all == rec \o blk
    IN  [audiorec |-> all, raised |-> Len(all) > size]

\* AudioReceiver.next_audio_block(block) on the accumulator rec of target
\* length size: vstack, then the cut to size and StopIteration when the
\* accumulator has grown longer than size.
NextAudioBlock(rec, size, blk) ==
    LET all == rec \o blk
    IN  IF Len(all) > size
        THEN [audiorec |-> SubSeq(all, 1, size), raised |-> TRUE]
        ELSE [audiorec |-> all, raised |-> FALSE]

\* Sink.run: self.running.wait(5.) returns, running set or not
SinkRunningWait ==
    /\ sinkPc = "wait_running"
    /\ sinkPc' = "loop"
    /\ UNCHANGED <<butSink, sinkQ, audiorec, receiverSize, have_receiver,
                   overruns>>

\* Sink.run with have_receiver set: q.get(timeout=2.) returns a block and
\* receiver.next_audio_block takes it; StopIteration clears have_receiver.
SinkGet ==
    /\ sinkPc = "loop"
    /\ have_receiver
    /\ sinkQ # <<>>
    /\ LET out == NextAudioBlock(audiorec, receiverSize, Head(sinkQ))
       IN  /\ audiorec' = out.audiorec
           /\ overruns' = (IF out.raised THEN overruns + 1 ELSE overruns)
           /\ have_receiver' = (IF out.raised THEN FALSE ELSE have_receiver)
    /\ sinkQ' = Tail(sinkQ)
    /\ UNCHANGED <<butSink, receiverSize, sinkPc>>

\* Sink.run with have_receiver set: q.get(timeout=2.) raises Empty; the
\* thread ends when running is clear.
SinkGetTimeout ==
    /\ sinkPc = "loop"
    /\ have_receiver
    /\ sinkQ = <<>>
    /\ sinkPc' = (IF running THEN "loop" ELSE "done")
    /\ UNCHANGED <<butSink, sinkQ, audiorec, receiverSize, have_receiver,
                   overruns>>

\* Sink.replace_receiver_buffer(size): receiver.emplace_size(size);
\* have_receiver.set()
ReplaceReceiverBuffer(size) ==
    /\ sinkPc # "absent"
    /\ receiverSize' = size
    /\ audiorec' = <<>>
    /\ have_receiver' = TRUE
    /\ UNCHANGED <<butSink, sinkQ, sinkPc, overruns>>

\* The callback blocks waiting on the sink queue: BlockSize frames each,
\* the frames numbered in capture order.
SinkInputs ==
    {Numbered([i \in 1..n |-> BlockSize], 1) : n \in 0..MaxSinkBlocks}

\* Target lengths a caller may ask for.
Targets == 0..MaxTarget

\* A Sink on a new AudioReceiver of some target length, started while the
\* stream runs or after it has ended, with the blocks of the callbacks so
\* far on its queue; have_receiver is clear until the first
\* replace_receiver_buffer.
InitSink ==
    /\ EngineIdle(SemValueMax)
    /\ NoSource
    /\ running \in BOOLEAN
    /\ DeviceBuilt
    /\ NoMonitor
    /\ sinkQ \in SinkInputs
    /\ audiorec = <<>>
    /\ receiverSize \in Targets
    /\ have_receiver = FALSE
    /\ sinkPc = "wait_running"
    /\ overruns = 0

NextSink ==
    \/ SinkRunningWait
    \/ SinkGet
    \/ SinkGetTimeout
    \/ \E size \in Targets : ReplaceReceiverBuffer(size)

\* The Sink thread with its AudioReceiver, on a queue of captured blocks.
SpecSink == InitSink /\ [][NextSink]_vars

\* A Source in its loop on a running stream, its AudioGenerator built with
\* a block size of its own and no audio yet.
InitGenerator ==
    /\ EngineIdle(SemValueMax)
    /\ DeviceBuilt
    /\ NoMonitor
    /\ NoSink
    /\ sinkQ = <<>>
    /\ running = TRUE
    /\ session = 1
    /\ sourceQ = <<>>
    /\ stop_request = FALSE
    /\ recording = FALSE
    /\ callback_safe = FALSE
    /\ have_generator = FALSE
    /\ generator = <<>>
    /\ installs = 0
    /\ srcPc = "loop"
    /\ closerPc = "absent"
    /\ placed = <<>>
    /\ audio = <<>>
    /\ blocksize \in 1..MaxBlockSize
    /\ written = <<>>

NextGenerator ==
    \/ \E frames \in 1..MaxAudio : PlaceAudioOf(frames)
    \/ SourcePush

\* An AudioGenerator given an audio of any length, its blocks taken one by
\* one with next_audio_block.
SpecGenerator == InitGenerator /\ [][NextGenerator]_vars

\* A Device that was turned on, with a monitor plugged and started or with
\* none: turn_on has returned and the streamer is in run().  The capacity of
\* Queue() is the platform's or, so that a queue nobody drains fills within
\* the bounds, a small one.
InitMonitored ==
    /\ \E cap \in (1..MaxCap) \cup {SemValueMax} : NoSessionOn(cap)
    /\ running = TRUE
    /\ online = TRUE
    /\ samplerate = DefaultRate
    /\ inputs = AllChannels
    /\ outputs = AllChannels
    /\ has_monitor \in BOOLEAN
    /\ extern_monitor = FALSE
    /\ MonitorSub = (IF has_monitor THEN "MonA" ELSE "None")
    /\ lastCall = [name |-> "turn_on", result |-> "returned",
                   online |-> FALSE]
    /\ streamers = <<[NewStreamer("continuous", FALSE)
                         EXCEPT !.pc = "streaming"]>>
    /\ devPc = DevIdle
    /\ monitorQ = <<>>
    /\ monData = Zeros(numSamples)
    /\ frameCount = 0
    /\ monPc = (IF has_monitor THEN "wait_running" ELSE "absent")
    /\ processed = <<>>
    /\ pushed = 0
    /\ consumed = <<>>
    /\ playQ = <<>>
    /\ workers = <<>>
    /\ ctxOnline = FALSE

NextMonitored ==
    \/ \E i \in 1..Len(streamers) : ContSetFinished(i)
    \/ \E i \in 1..Len(streamers) : ContLoopHead(i)
    \/ \E i \in 1..Len(streamers) : ContGetTimeout(i)
    \/ \E i \in 1..Len(streamers) : ContGet(i)
    \/ \E i \in 1..Len(streamers) : ContWaitDone(i)
    \/ \E i \in 1..Len(streamers) : ContTick(i)
    \/ \E n \in {1, MaxRequest}, b \in BOOLEAN : OnlinePlay(n, b)
    \/ MonitorRunningSeen
    \/ MonitorGet
    \/ MonitorEmpty

\* One continuous stream with and without a monitor, the monitor taking
\* its blocks at its own pace or not at all.
SpecMonitored == InitMonitored /\ [][NextMonitored]_vars

\* A Device in continuous mode with no monitor.
InitPlayback ==
    /\ InitMonitored
    /\ ~has_monitor
    /\ maxsize = SemValueMax

NextPlayback ==
    \/ \E i \in 1..Len(streamers) : ContSetFinished(i)
    \/ \E i \in 1..Len(streamers) : ContLoopHead(i)
    \/ \E i \in 1..Len(streamers) : ContGetTimeout(i)
    \/ \E i \in 1..Len(streamers) : NewPlaydataSamples(i)
    \/ \E i \in 1..Len(streamers) : NewPlaydataIdx(i)
    \/ \E i \in 1..Len(streamers) : NewPlaydataData(i)
    \/ \E i \in 1..Len(streamers) : NewPlaydataClear(i)
    \/ \E i \in 1..Len(streamers) : ContWaitFinished(i)
    \/ \E i \in 1..Len(streamers) : ContTick(i)
    \/ \E n \in Requests, b \in BOOLEAN : OnlinePlay(n, b)

\* Play requests on one continuous stream, _new_playdata in its steps with
\* the callback running between any two, each request played to its end
\* within the wait of run().
SpecPlayback == InitPlayback /\ [][NextPlayback]_vars

NextInterleave ==
    \/ \E i \in 1..Len(streamers) : ContSetFinished(i)
    \/ \E i \in 1..Len(streamers) : ContLoopHead(i)
    \/ \E i \in 1..Len(streamers) : ContGetTimeout(i)
    \/ \E i \in 1..Len(streamers) : NewPlaydataSamples(i)
    \/ \E i \in 1..Len(streamers) : NewPlaydataIdx(i)
    \/ \E i \in 1..Len(streamers) : NewPlaydataData(i)
    \/ \E i \in 1..Len(streamers) : NewPlaydataClear(i)
    \/ \E i \in 1..Len(streamers) : ContWaitDone(i)
    \/ \E i \in 1..Len(streamers) : ContTick(i)
    \/ \E n \in Requests, b \in BOOLEAN : OnlinePlay(n, b)

\* Play requests on one continuous stream, the wait of run() running out
\* or not.
SpecInterleave == InitPlayback /\ [][NextInterleave]_vars

NextCapture ==
    \/ TurnOn
    \/ DeviceWaitRunning
    \/ \E i \in 1..Len(streamers) : StreamerSetRunning(i)
    \/ \E i \in 1..Len(streamers) : ContSetFinished(i)
    \/ \E i \in 1..Len(streamers) : ContTick(i)
    \/ \E n \in Requests, b \in BOOLEAN : OnlineRecord(n, b)
    \/ \E w \in 1..Len(workers) : WorkerStart(w)
    \/ \E w \in 1..Len(workers) : WorkerPop(w)
    \/ \E w \in 1..Len(workers) : ContBufferCleanup(w)

\* The record requests of continuous mode with the buffer threads they
\* start, the streamer waiting for a play request throughout.
SpecCapture == InitDevice /\ [][NextCapture]_vars

\* ================================================================= claims

IsPrefix(s, t) == Len(s) <= Len(t) /\ \A i \in 1..Len(s) : s[i] = t[i]

\* The callbacks of the session are over.
CallbacksOver == finPc # "idle"

\* C3 (overrun accounting): when the callback has called put_nowait more
\* often than the capture queue has room, every call beyond the capacity is
\* recorded as a drop in _statuses -- the one record the streamer keeps --,
\* the queue holds the first maxsize blocks in push order, and the callback
\* was not aborted.
C3_OverrunAccounting ==
    puts > maxsize =>
        /\ Len(statuses) = puts - maxsize
        /\ Len(bufferQ) = maxsize
        /\ paResult # "abort"

\* C4 (completeness of a blocking record): when a blocking record or playrec
\* call has returned, the capture queue is empty and the accumulator it
\* returned starts with every captured frame, in capture order.
C4_RecordComplete ==
    (callerPc = "returned" /\ block /\ HasBuffer(kind)) =>
        /\ bufferQ = <<>>
        /\ IsPrefix(captured, ret)

\* C5 (record length): a record session asked for nframes frames, a whole
\* number, has an accumulator of exactly nframes frames and has captured
\* exactly nframes frames when its callbacks are over.
C5_RecordLength ==
    kind = "record" =>
        /\ durationSamples = nframes
        /\ Len(buffer) = nframes
        /\ (CallbacksOver => Len(captured) = nframes)

C8_CallerNotStuck ==
    (block /\ streamerPc = "exited" /\ finPc = "done") =>
        \/ callerPc = "returned"
        \/ (callerPc = "wait_running" /\ running)
        \/ (callerPc = "wait_finished" /\ finished)

\* C10 (start ordering): the _MemoryBuffer worker has taken nothing from the
\* capture queue as long as the streamer has not set the running flag.
C10_StartOrdering ==
    streamerPc \in {"idle", "spawned", "opened"} => bufIdx = 0

\* C1 (playback round trip): the output blocks of the ticks so far are the
\* blocks Source placed on the source queue, in the order it placed them.
C1_RoundTrip ==
    kind = "stream" => IsPrefix(written, placed)

\* C2 (underrun substitution): a tick that finds the source queue empty
\* returns normally and leaves an all-zero block of BlockSize frames in the
\* output.
C2_UnderrunSilence ==
    [][(sourceQ = <<>> /\ StreamsTick) =>
          (paResult' # "abort" /\ outdata' = Zeros(BlockSize))]_vars

\* C7 (blocking call release): a blocking caller has returned only if the
\* finished callback of the session it started has set finished.
C7_BlockingRelease ==
    (block /\ callerPc = "returned") => finPc = "done"

\* C9 (cooperative stop), first half: a tick that finds stop_request set
\* while running is set ends the callback boundary.
C9_TickEndsBoundary ==
    (stop_request /\ running /\ StreamsTick) => ~cbActive'

\* C9, second half: with a stop requested, a caller blocked on the session
\* is released only after the finished callback of that session has run.
C9_ReleaseAfterFinish ==
    (stop_request /\ callerPc = "wait_finished" /\ callerPc' = "returned")
        => finPc = "done"

\* C9 (cooperative stop)
C9_CooperativeStop ==
    [][C9_TickEndsBoundary /\ C9_ReleaseAfterFinish]_vars

\* C11 (one session at a time): after play, record and playrec calls only,
\* blocking or not, at most one streamer process built by the Device is
\* alive, so a new streamer is started only once the one before it has
\* ended.
C11_OneSessionAtATime ==
    (\A i \in 1..Len(streamers) : streamers[i].kind # "continuous")
        => Cardinality({i \in 1..Len(streamers) : Alive(i)}) <= 1

\* A session is active: continuous mode is on, or a streamer is alive.
SessionActive == online \/ \E i \in 1..Len(streamers) : Alive(i)

\* The setters of the configuration.
Setters == {"samplerate", "inputs", "outputs"}

\* C16 (configuration frozen while online): no step taken while continuous
\* mode is on -- an assignment to samplerate, inputs or outputs among them --
\* changes the sample rate or a channel list.
C16_ConfigFrozenOnline ==
    [][online => UNCHANGED <<samplerate, inputs, outputs>>]_vars

\* A setter was called with continuous mode on, after the configuration had
\* been changed from what the constructor chose.
C16_Witness ==
    /\ online
    /\ lastCall.name \in Setters
    /\ lastCall.online
    /\ inputs # AllChannels
    /\ samplerate # DefaultRate

\* A channel list is valid: sorted, without a repeated index, every index
\* in 0 .. MaxChannels - 1.
ChannelsValid(mapping) ==
    /\ \A i \in 1..Len(mapping) : mapping[i] \in 0..(MaxChannels - 1)
    /\ \A i \in 1..(Len(mapping) - 1) : mapping[i] < mapping[i + 1]

\* C17 (reconfiguration error is surfaced): an assignment to samplerate,
\* inputs or outputs made while continuous mode is on ends with an error,
\* and so does the assignment of a channel list that is not valid.
C17_ReconfigurationError ==
    [][/\ \A m \in Mappings :
            ((online \/ ~ChannelsValid(m) \/ m = <<>>)
                /\ (SetInputs(m) \/ SetOutputs(m)))
                => lastCall'.result # "returned"
       /\ \A fs \in Rates :
            (online /\ SetSamplerate(fs)) => lastCall'.result # "returned"
      ]_vars

\* C18 (monitor plugging frozen during a session): a step taken while a
\* session is active leaves the stored monitor class and both monitor flags
\* as they are, and plug_monitor called with no session active stores the
\* class it was given.
C18_MonitorPluggingFrozen ==
    [][/\ SessionActive =>
            UNCHANGED <<MonitorSub, has_monitor, extern_monitor>>
       /\ \A sub \in MonitorSubs :
            (~SessionActive /\ PlugMonitor(sub)) => MonitorSub' = sub
      ]_vars

\* C19 (channel selection invariant): both channel lists of the Device are
\* sorted, hold no index twice and hold only indices of the device.
C19_ChannelSelection ==
    ChannelsValid(inputs) /\ ChannelsValid(outputs)

\* The windows process_data was given that hold a frame of the stream.
Delivered == SelectSeq(processed, LAMBDA w : w # Zeros(numSamples))

\* C20 (monitor window delivery): in the first session of a Device, once the
\* callback has put blocks of numSamples frames in all and the monitor has
\* taken them, the stream still running, process_data was called once with
\* those frames, oldest first.
C20_WindowDelivery ==
    (/\ Len(streamers) = 1
     /\ running
     /\ monPc = "inner"
     /\ pushed = WinBlocks
     /\ monitorQ = <<>>
     /\ frameCount = 0)
        => Delivered = <<Frames(1, numSamples)>>

\* The live buffer threads that pop from the capture queue of streamer i.
Consumers(i) ==
    {w \in 1..Len(workers) : workers[w].streamer = i /\ WorkerAlive(w)}

\* C12: single consumer -- in every reachable state the capture queue of a
\* stream has at most one live buffer worker popping from it, however many
\* record requests were made in continuous mode.
C12_SingleConsumer ==
    \A i \in 1..Len(streamers) : Cardinality(Consumers(i)) <= 1

NewestStreamer == streamers'[Len(streamers')]

\* C14: restart freshness -- a turn_on made while continuous mode is off
\* starts the session with playback cursor 0, record cursor 0, nothing to
\* play or record, no play request waiting, and an all-zero window in the
\* monitor it starts, whatever happened in an earlier session.
C14_RestartFreshness ==
    [][(~online /\ TurnOn) =>
          /\ NewestStreamer.playIdx = 0
          /\ NewestStreamer.recIdx = 0
          /\ NewestStreamer.playdata = Zeros(BlockSize)
          /\ ~NewestStreamer.recording
          /\ NewestStreamer.bufferQ = <<>>
          /\ playQ' = <<>>
          /\ MonitorPlugged => monData' = Zeros(numSamples)]_vars

\* C15: continuous mode is non-blocking -- a play, record or playrec made
\* while continuous mode is on has returned to its caller when the call
\* ends, whatever value of block was passed.
C15_NonBlocking ==
    (lastCall.name \in SessionCalls /\ lastCall.online) =>
        lastCall.result = "returned"

\* The last n frames of a sequence of at least n frames.
LastFrames(frames, n) == SubSeq(frames, Len(frames) - n + 1, Len(frames))

\* C21: rolling window invariant -- whatever blocks the monitor has taken
\* from its queue, it has taken them without failing, and its window has
\* exactly numSamples frames: the last numSamples frames of the initial
\* zeros followed by every frame taken, oldest first.
C21_RollingWindow ==
    /\ monPc # "raised"
    /\ Len(monData) = numSamples
    /\ monData = LastFrames(Zeros(numSamples) \o consumed, numSamples)

\* C22: monitor shutdown -- under fair scheduling a monitor started for a
\* finite session in the end leaves its loop for tear_down and exits (or is
\* still being fed when the last process_data call the model follows has
\* been made), however its start interleaves with the streamer setting and
\* clearing running.
C22_MonitorShutdown ==
    (monPc = "wait_running") ~>
        (monPc = "done" \/ Len(processed) = MaxCalls)

\* What a callback leaves of the audio: the streamer with its cursors, its
\* capture queue, its flags and statuses, the output block, and whether the
\* callback was left through an exception.
AudioOf(out) == <<out.st, out.outdata, out.raised>>

\* C23: monitoring does not interfere with audio -- in every reachable state
\* the next callback leaves the same output block, the same capture queue,
\* the same cursors, statuses and finished flag, and ends the same way, with
\* the monitor attached and the backlog its queue holds as it would with no
\* monitor at all.
C23_MonitorNonInterference ==
    \A i \in 1..Len(streamers), status \in BOOLEAN :
        (streamers[i].kind = "continuous" /\ streamers[i].pc = "streaming")
            => AudioOf(ContCallback(streamers[i], has_monitor, monitorQ,
                                    MonitorBlock, status))
               = AudioOf(ContCallback(streamers[i], FALSE, <<>>,
                                      MonitorBlock, status))

\* C24: underrun and overrun never end the session -- no callback of a
\* stream is left through an error and aborts the stream; the callback
\* boundary of a stream that was opened is closed only by a requested stop.
C24_UnderrunKeepsSession ==
    kind = "stream" =>
        /\ paResult # "abort"
        /\ (paResult = "stop" => stop_request)

C26_FailureReleasesCaller ==
    streamerPc = "failed" => finished

C28_BlockShape ==
    \A i \in 1..Len(bufferQ) :
        /\ Len(bufferQ[i]) = Len(bufferQ[1])
        /\ Len(bufferQ[i]) > 0

\* C29: lifecycle flags -- the finished flag of the session in progress and
\* the running flag are never both set.
C29_LifecycleFlags ==
    streamers # <<>> =>
        ~(running /\ streamers[Len(streamers)].finished)

\* C30: source exhaustion -- when the Source finds its generator exhausted
\* while the stream is running, it puts exactly one silence block on the
\* source queue, clears have_generator and stays in its loop, where it
\* pushes nothing while have_generator is clear.
C30_SourceExhaustion ==
    [][(running /\ SourceExhausted) =>
          /\ sourceQ' = Append(sourceQ, Zeros(BlockSize))
          /\ ~have_generator'
          /\ srcPc' = "loop"]_vars

\* C31: Source shutdown -- once the session is over and running is clear, a
\* Source thread that is in its loop eventually leaves it and ends, with or
\* without a generator installed, exhausted or not.
C31_SourceShutdown ==
    (srcPc = "loop" /\ ~running /\ streamerPc = "exited" /\ finPc = "done")
        ~> (srcPc \in {"exited", "crashed"})

\* C32: Sink shutdown -- once running was cleared at the end of the session
\* and the capture queue is empty, the memory-buffer worker eventually
\* leaves its loop and ends.
C32_SinkShutdown ==
    (bufPc = "loop" /\ bufferQ = <<>> /\ ~running /\ finPc = "done"
        /\ streamerPc = "exited")
        ~> (bufPc \notin {"wait_running", "loop"})

\* C33: Sink start timeout -- when the bounded wait for running runs out
\* with running clear, the memory-buffer worker exits: it does not enter
\* its loop, pops no block and leaves the accumulator as it is.
C33_StartTimeout ==
    [][MemoryBufferWaitTimeout =>
          /\ bufPc' \notin {"wait_running", "loop"}
          /\ UNCHANGED <<bufferQ, buffer, bufIdx>>]_vars

\* The frames of the blocks that wait on the sink queue when the Sink
\* starts: all of them were captured while no receiver was registered.
CapturedUnregistered == 1..(MaxSinkBlocks * BlockSize)

\* C34: Sink discards without a receiver -- a receiver registered later
\* never receives a frame that was captured while no receiver was
\* registered.
C34_DiscardWithoutReceiver ==
    \A i \in 1..Len(audiorec) : audiorec[i] \notin CapturedUnregistered

C37_CursorSafety ==
    \A i \in 1..Len(streamers) :
        streamers[i].pc = "streaming" =>
            /\ ~streamers[i].finished =>
                    /\ 0 <= streamers[i].playIdx
                    /\ streamers[i].playIdx <= streamers[i].playSamples
                    /\ 0 <= ContFrames(BlockSize, streamers[i].playIdx,
                                       streamers[i].playSamples)
            /\ streamers[i].recording =>
                    /\ 0 <= streamers[i].recIdx
                    /\ streamers[i].recIdx <= streamers[i].recSamples

\* C38: no pre-emption of playback in continuous mode -- run() starts the
\* next play request only when the previous one has been played to its
\* last frame: its playback is marked finished or its cursor is at its
\* length.
C38_NoPreemption ==
    [][\A i \in 1..Len(streamers) :
          NewPlaydataSamples(i) =>
              \/ streamers[i].finished
              \/ streamers[i].playIdx = streamers[i].playSamples]_vars

\* C36: external monitor ownership -- while _extern_monitor is set, the
\* Device starts no monitor of its own and no step of its calls or of their
\* cleanup takes an item from the monitor queue: what the callback has put
\* there stays for the external consumer.
C36_ExternalOwnership ==
    /\ [][extern_monitor =>
            /\ Len(monitorQ') >= Len(monitorQ)
            /\ SubSeq(monitorQ', 1, Len(monitorQ)) = monitorQ]_vars
    /\ [](extern_monitor => monPc = "absent")

\* C39: no play request leaks across continuous sessions -- with every
\* play request issued in the first session, only the streamer of the first
\* session ever takes a request from the queue, and the streamer of a
\* later session outputs nothing but silence.
C39_NoLeak ==
    /\ [][\A i \in 1..Len(streamers) : ContGet(i) => i = 1]_vars
    /\ [][\A i \in 1..Len(streamers) :
            (ContTick(i) /\ i > 1) => outdata' = Zeros(BlockSize)]_vars

\* The frames of the blocks in order.
RECURSIVE Concatenated(_)
Concatenated(blocks) ==
    IF blocks = <<>> THEN <<>>
    ELSE Head(blocks) \o Concatenated(Tail(blocks))

\* C40: generator block count -- the blocks an AudioGenerator yields for an
\* audio of F >= 1 frames and block size S, those already taken and those
\* still to come, are ceil(F / S) blocks of S frames each, and their frames
\* in order are the audio followed by zeros.
C40_BlockCount ==
    have_generator =>
        LET blocks == placed \o generator
            count  == BlockCountUp(Len(audio), blocksize)
        IN  /\ Len(blocks) = count
            /\ \A k \in 1..Len(blocks) : Len(blocks[k]) = blocksize
            /\ Concatenated(blocks)
                   = audio \o Zeros(count * blocksize - Len(audio))

====
